---- MODULE Spec2Model ----
(***************************************************************************)
(* Package lookup (carloslenz/lookup): Lookup fills the fields of a struct *)
(* from a priority-ordered list of Lookers, converting each looked-up      *)
(* string to the field's type and reporting every loaded entry.            *)
(*                                                                         *)
(* Strings that the code splits or scans (tag values, keys, raw values)    *)
(* are sequences of one-character strings.  Field names, kinds and error   *)
(* texts are never parsed and stay atomic strings.                         *)
(***************************************************************************)
EXTENDS Integers, Sequences, FiniteSets, TLC

VARIABLES
    e,      \* the struct type behind the pointer: sequence of field declarations
    rec,    \* the struct value: rec[i] is the current value of field i
    rec0,   \* the field values when Lookup was called
    seq,    \* the Lookers passed to Lookup, in priority order
    pc,     \* "call" (before Lookup), "loop" (inside the for loop), "done"
    i,      \* loop variable of Lookup (1-based)
    trace,  \* every Looker call, field write and Reporter call so far, in order
    got,    \* the loop body's locals fieldKey, v, ok, err once lookupKey has returned
    ret,    \* the error returned by Lookup (kind "nil" for a nil error)
    prev,   \* what the caller saw of the call of Lookup before this one
    rep,    \* the Reporter passed to Lookup, the buffer and the Map it writes to
    src,    \* a Looker that several threads call LookupKey on
    mutex,  \* the thread that holds src's mutex, 0 when it is free
    th,     \* th[t]: where thread t is in LookupKey, and its locals
    ncalls  \* the number of calls of LookupKey the threads have started

lookupVars == <<e, rec, rec0, seq, pc, i, trace, got, ret, prev, rep>>
sourceVars == <<src, mutex, th, ncalls>>
vars == <<e, rec, rec0, seq, pc, i, trace, got, ret, prev, rep, src, mutex, th, ncalls>>

(***************************************************************************)
(* Bounds of the model.                                                    *)
(***************************************************************************)
MaxFields == 3
MaxSeq == 3
MaxCalls == 2
MaxThreads == 2
MaxKeyCalls == 3

(***************************************************************************)
(* Text.                                                                   *)
(***************************************************************************)
NL == "\n"
Comma == ","
Empty == <<>>

sA == <<"A">>
sB == <<"B">>
sC == <<"C">>
sD == <<"D">>
sOmitempty == <<"o", "m", "i", "t", "e", "m", "p", "t", "y">>
sOptional == <<"o", "p", "t", "i", "o", "n", "a", "l">>

\* s ++ "," ++ t
WithMarker(s, t) == s \o <<Comma>> \o t

(***************************************************************************)
(* Values held by fields and handed to the Reporter (interface{} values).  *)
(* One record shape for every Go type, so that values of different types   *)
(* compare unequal instead of being incomparable.                          *)
(***************************************************************************)
StrV(s) == [kind |-> "string", b |-> FALSE, n |-> 0, s |-> s]
BoolV(b) == [kind |-> "bool", b |-> b, n |-> 0, s |-> Empty]
IntV(k, n) == [kind |-> k, b |-> FALSE, n |-> n, s |-> Empty]

\* A complex64 or complex128 with whole parts, and a []byte (bytes as 0..255).
ComplexV(k, re, im) == [kind |-> k, b |-> FALSE, n |-> re, s |-> Empty, im |-> im]
BytesV(bytes) == [kind |-> "[]byte", b |-> FALSE, n |-> 0, s |-> Empty, bytes |-> bytes]

nil == "nil"

\* The nil interface{} value.
NilV == [kind |-> "nil", b |-> FALSE, n |-> 0, s |-> Empty]

(***************************************************************************)
(* Lookers.  A Looker answers LookupKey(k) with (v, b, err).  tbl is the   *)
(* content (a Map's entries, or the graph of the wrapped function F on the *)
(* keys it knows); dflt is what a wrapped function returns for any other   *)
(* key.                                                                    *)
(***************************************************************************)
Ans(v, b, err) == [v |-> v, b |-> b, err |-> err]

NoEntries == [x \in {} |-> Ans(Empty, FALSE, nil)]
Found(v) == Ans(v, TRUE, nil)

\* A Looker value.  The Lookers of lookup.go have no state of their own:
\* kind, tbl and dflt say everything.  The Lookers of json_file.go and
\* args.go load on their first call: content and obj are the file or body
\* they read (obj the JSON object in it, values as fmt.Sprint prints them),
\* args the argument list and prefix the prefix of an ArgsLooker; data says whether l.data is nil, in which case
\* tbl is empty, or a map, whose entries tbl then holds; extra is extraArgs
\* and loads counts the loads.
Stateful(kind, content, obj, args) ==
    [kind |-> kind, tbl |-> NoEntries, dflt |-> Ans(Empty, FALSE, nil),
     content |-> content, obj |-> obj, args |-> args, prefix |-> Empty,
     data |-> "nil", loads |-> 0, extra |-> <<>>]

Looker(kind, tbl, dflt) ==
    [kind |-> kind, tbl |-> tbl, dflt |-> dflt,
     content |-> "none", obj |-> NoEntries, args |-> <<>>, prefix |-> Empty,
     data |-> "nil", loads |-> 0, extra |-> <<>>]

\* func (l NoError) LookupKey: F returns (v, b); err is always nil.
NoErrorLookupKey(l, s) ==
    LET f == IF s \in DOMAIN l.tbl THEN l.tbl[s] ELSE l.dflt
    IN  Ans(f.v, f.b, nil)

\* func (l NoBool) LookupKey: F returns (v, err); return v, err != nil, err.
NoBoolLookupKey(l, s) ==
    LET f == IF s \in DOMAIN l.tbl THEN l.tbl[s] ELSE l.dflt
    IN  Ans(f.v, f.err # nil, f.err)

\* func (l Map) LookupKey: v, b = l[s]; a missing key reads as ("", false).
MapLookupKey(l, s) ==
    IF s \in DOMAIN l.tbl THEN Ans(l.tbl[s].v, TRUE, nil) ELSE Ans(Empty, FALSE, nil)

\* Any other implementation of the Looker interface: answers as its table says.
OtherLookupKey(l, s) ==
    IF s \in DOMAIN l.tbl THEN l.tbl[s] ELSE l.dflt

(***************************************************************************)
(* json_file.go: jsonLooker and jsonRequestLooker, one call of LookupKey   *)
(* run from its first to its last statement.                               *)
(***************************************************************************)
openError == "open failed"
decodeError == "decode failed"

\* What os.Open and Decode(&l.data) do when l.data was nil: the error
\* returned (nil when none) and l.data afterwards.  Decode fills the map
\* that was just made from a JSON object, leaves it empty when it fails,
\* and sets it to nil when the document is the JSON value null.  A request
\* body can be read once: decoding it again fails at its end.
LoadResult(err, data, tbl) == [err |-> err, data |-> data, tbl |-> tbl]

jsonLoad(l) ==
    CASE l.kind = "jsonFile" /\ l.content = "missing" -> LoadResult(openError, "map", NoEntries)
      [] l.kind = "jsonRequest" /\ l.loads > 0 -> LoadResult(decodeError, "map", NoEntries)
      [] OTHER ->
            CASE l.content = "object" -> LoadResult(nil, "map", l.obj)
              [] l.content = "null" -> LoadResult(nil, "nil", NoEntries)
              [] OTHER -> LoadResult(decodeError, "map", NoEntries)

\* The Looker after the if statement of LookupKey.
jsonAfterLoad(l, ld) ==
    [l EXCEPT !.data = ld.data, !.tbl = ld.tbl, !.loads = l.loads + 1]

jsonAfter(l, s) == IF l.data = "nil" THEN jsonAfterLoad(l, jsonLoad(l)) ELSE l

\* v, ok := l.data[k] and the return statements after it.
jsonRead(l, s) == IF s \in DOMAIN l.tbl THEN Found(l.tbl[s].v) ELSE Ans(Empty, FALSE, nil)

jsonLookupKey(l, s) ==
    IF l.data = "nil" /\ jsonLoad(l).err # nil
    THEN Ans(Empty, FALSE, jsonLoad(l).err)
    ELSE jsonRead(jsonAfter(l, s), s)

(***************************************************************************)
(* args.go: ArgsLooker.                                                    *)
(***************************************************************************)
\* The prefix of the tests.
prefix == <<"-">>

NewArgs(pfx, args) == [Stateful("Args", "none", NoEntries, args) EXCEPT !.prefix = pfx]

\* The position of the first "=" of arg at or after p, Len(arg) + 1 when none.
RECURSIVE IndexEq(_, _)
IndexEq(arg, p) ==
    IF p > Len(arg) \/ arg[p] = "=" THEN p ELSE IndexEq(arg, p + 1)

\* l.rex.FindStringSubmatch(arg) for ^<pfx>([^=]*)(?:(=)(.*))?$ : the four
\* submatches, or nothing when arg does not match (no prefix, or a line
\* break after the "=", which "." does not match).
Submatch(pfx, arg, q) ==
    IF q > Len(arg)
    THEN <<arg, SubSeq(arg, Len(pfx) + 1, Len(arg)), Empty, Empty>>
    ELSE <<arg, SubSeq(arg, Len(pfx) + 1, q - 1), <<"=">>, SubSeq(arg, q + 1, Len(arg))>>

FindStringSubmatch(pfx, arg) ==
    IF Len(arg) < Len(pfx) \/ SubSeq(arg, 1, Len(pfx)) # pfx THEN <<>>
    ELSE IF \E p \in (IndexEq(arg, Len(pfx) + 1) + 1)..Len(arg) : arg[p] = NL THEN <<>>
    ELSE Submatch(pfx, arg, IndexEq(arg, Len(pfx) + 1))

\* Faulty variant: an entry that exists already is kept.
argStepKeepFirst(l, res, a) ==
    IF Len(res) < 4 THEN [l EXCEPT !.extra = Append(l.extra, a)]
    ELSE [l EXCEPT !.tbl = l.tbl
                           @@ (res[2] :> Found(IF res[3] = Empty THEN <<"1">> ELSE res[4]))]

\* One pass of the for loop of LookupKey over the argument a.
argStep(l, res, a) ==
    IF Len(res) < 4 THEN [l EXCEPT !.extra = Append(l.extra, a)]
    ELSE [l EXCEPT !.tbl = (res[2] :> Found(IF res[3] = Empty THEN <<"1">> ELSE res[4]))
                           @@ l.tbl]

RECURSIVE argsLoop(_, _)
argsLoop(l, n) ==
    IF n > Len(l.args) THEN l
    ELSE argsLoop(argStep(l, FindStringSubmatch(l.prefix, l.args[n]), l.args[n]), n + 1)

\* Faulty variant: the arguments are processed on every call.
ArgsAfterAlways(l, s) ==
    argsLoop([l EXCEPT !.data = "map", !.loads = l.loads + 1], 1)

\* The ArgsLooker after LookupKey's if statement (args.go lines 54-72).
ArgsAfter(l, s) ==
    IF l.data = "nil"
    THEN argsLoop([l EXCEPT !.data = "map", !.loads = l.loads + 1], 1)
    ELSE l

ArgsLookupKey(l, s) == MapLookupKey(ArgsAfter(l, s), s)

(***************************************************************************)
(* form.go: formLooker.  args lists the pairs "key=value" of the request's *)
(* query string or body as ParseForm unescapes them, in order; content     *)
(* says whether ParseForm reports a pair it could not unescape.  ParseForm *)
(* parses on its first call only: it returns its error then, and nil on    *)
(* every later call, with r.Form holding the pairs it could read.          *)
(***************************************************************************)
NewForm(content, pairs) == Stateful("Form", content, NoEntries, pairs)

\* l.Form[k]: the values of the pairs whose key is k, in order; the key of
\* a pair ends before its first "=", and a pair without "=" has the empty
\* value.
Form(l, k) ==
    LET with == SelectSeq(l.args, LAMBDA pair : SubSeq(pair, 1, IndexEq(pair, 1) - 1) = k)
    IN  [n \in 1..Len(with) |-> SubSeq(with[n], IndexEq(with[n], 1) + 1, Len(with[n]))]

\* Faulty variant: a key whose values are all empty gets the empty string.
RECURSIVE formLoopNoDefault(_, _)
formLoopNoDefault(v, n) ==
    IF n > Len(v) THEN Empty
    ELSE IF v[n] # Empty THEN v[n]
    ELSE formLoopNoDefault(v, n + 1)

\* s := "1" and the for loop over the values v, from index n on.
RECURSIVE formLoop(_, _)
formLoop(v, n) ==
    IF n > Len(v) THEN <<"1">>
    ELSE IF v[n] # Empty THEN v[n]
    ELSE formLoop(v, n + 1)

FormAfter(l, s) ==
    IF l.data = "nil" THEN [l EXCEPT !.data = "map", !.loads = l.loads + 1] ELSE l

formLookupKey(l, s) ==
    IF l.data = "nil" /\ l.content = "malformed" THEN Ans(Empty, FALSE, "ParseForm failed")
    ELSE IF Form(l, s) = <<>> THEN Ans(Empty, FALSE, nil)
    ELSE Found(formLoop(Form(l, s), 1))

\* e.LookupKey(s): dynamic dispatch on the Looker's type.
LookupKey(l, s) ==
    CASE l.kind = "NoError" -> NoErrorLookupKey(l, s)
      [] l.kind = "NoBool" -> NoBoolLookupKey(l, s)
      [] l.kind = "Map" -> MapLookupKey(l, s)
      [] l.kind \in {"jsonFile", "jsonRequest"} -> jsonLookupKey(l, s)
      [] l.kind = "Args" -> ArgsLookupKey(l, s)
      [] l.kind = "Form" -> formLookupKey(l, s)
      [] OTHER -> OtherLookupKey(l, s)

\* The Looker after that call.
AfterLookupKey(l, s) ==
    CASE l.kind \in {"jsonFile", "jsonRequest"} -> jsonAfter(l, s)
      [] l.kind = "Args" -> ArgsAfter(l, s)
      [] l.kind = "Form" -> FormAfter(l, s)
      [] OTHER -> l

(***************************************************************************)
(* lookupKey: the loop over the Lookers.  j is the next Looker to ask,     *)
(* cur the named results (v, b, err) as assigned so far, calls the Lookers *)
(* asked so far together with their answers.                               *)
(***************************************************************************)
\* Faulty variant: the loop has no break, every Looker is asked.
RECURSIVE lookupKeyLoopNoBreak(_, _, _, _, _)
lookupKeyLoopNoBreak(s, l, j, cur, calls) ==
    IF j > Len(l)
    THEN [v |-> cur.v, b |-> cur.b, err |-> cur.err, calls |-> calls]
    ELSE lookupKeyLoopNoBreak(s, l, j + 1, LookupKey(l[j], s),
                              Append(calls, [src |-> j, ans |-> LookupKey(l[j], s)]))

\* Faulty variant: when no Looker has the key, the zero result is returned
\* instead of the last Looker's answer.
RECURSIVE lookupKeyLoopForget(_, _, _, _, _)
lookupKeyLoopForget(s, l, j, cur, calls) ==
    IF j > Len(l)
    THEN [v |-> Empty, b |-> FALSE, err |-> nil, calls |-> calls]
    ELSE IF LookupKey(l[j], s).err = nil /\ LookupKey(l[j], s).b
         THEN [v |-> LookupKey(l[j], s).v, b |-> TRUE, err |-> nil,
               calls |-> Append(calls, [src |-> j, ans |-> LookupKey(l[j], s)])]
         ELSE lookupKeyLoopForget(s, l, j + 1, LookupKey(l[j], s),
                                  Append(calls, [src |-> j, ans |-> LookupKey(l[j], s)]))

\* Faulty variant: the loop also stops at the first Looker that fails.
RECURSIVE lookupKeyLoopBreakOnError(_, _, _, _, _)
lookupKeyLoopBreakOnError(s, l, j, cur, calls) ==
    IF j > Len(l)
    THEN [v |-> cur.v, b |-> cur.b, err |-> cur.err, calls |-> calls]
    ELSE IF LookupKey(l[j], s).err # nil \/ LookupKey(l[j], s).b
         THEN [v |-> LookupKey(l[j], s).v, b |-> LookupKey(l[j], s).b,
               err |-> LookupKey(l[j], s).err,
               calls |-> Append(calls, [src |-> j, ans |-> LookupKey(l[j], s)])]
         ELSE lookupKeyLoopBreakOnError(s, l, j + 1, LookupKey(l[j], s),
                                        Append(calls, [src |-> j, ans |-> LookupKey(l[j], s)]))

\* Faulty variant: the loop stops at a found value whatever the error is.
RECURSIVE lookupKeyLoopBreakOnFound(_, _, _, _, _)
lookupKeyLoopBreakOnFound(s, l, j, cur, calls) ==
    IF j > Len(l)
    THEN [v |-> cur.v, b |-> cur.b, err |-> cur.err, calls |-> calls]
    ELSE IF LookupKey(l[j], s).b
         THEN [v |-> LookupKey(l[j], s).v, b |-> TRUE, err |-> LookupKey(l[j], s).err,
               calls |-> Append(calls, [src |-> j, ans |-> LookupKey(l[j], s)])]
         ELSE lookupKeyLoopBreakOnFound(s, l, j + 1, LookupKey(l[j], s),
                                        Append(calls, [src |-> j, ans |-> LookupKey(l[j], s)]))

\* Faulty variant: a Looker that fails is asked a second time.
RECURSIVE lookupKeyLoopRetry(_, _, _, _, _)
lookupKeyLoopRetry(s, l, j, cur, calls) ==
    IF j > Len(l)
    THEN [v |-> cur.v, b |-> cur.b, err |-> cur.err, calls |-> calls]
    ELSE IF LookupKey(l[j], s).err = nil /\ LookupKey(l[j], s).b
         THEN [v |-> LookupKey(l[j], s).v, b |-> TRUE, err |-> nil,
               calls |-> Append(calls, [src |-> j, ans |-> LookupKey(l[j], s)])]
         ELSE IF LookupKey(l[j], s).err # nil
              THEN lookupKeyLoopRetry(s, l, j + 1, LookupKey(l[j], s),
                                      calls \o <<[src |-> j, ans |-> LookupKey(l[j], s)],
                                                 [src |-> j, ans |-> LookupKey(l[j], s)]>>)
              ELSE lookupKeyLoopRetry(s, l, j + 1, LookupKey(l[j], s),
                                      Append(calls, [src |-> j, ans |-> LookupKey(l[j], s)]))

RECURSIVE lookupKeyLoop(_, _, _, _, _)
lookupKeyLoop(s, l, j, cur, calls) ==
    IF j > Len(l)
    THEN [v |-> cur.v, b |-> cur.b, err |-> cur.err, calls |-> calls]
    ELSE LET a == LookupKey(l[j], s)
             c == Append(calls, [src |-> j, ans |-> a])
         IN  IF a.err = nil /\ a.b
             THEN [v |-> a.v, b |-> a.b, err |-> a.err, calls |-> c]
             ELSE lookupKeyLoop(s, l, j + 1, a, c)

lookupKey(s, l) == lookupKeyLoop(s, l, 1, Ans(Empty, FALSE, nil), <<>>)

(***************************************************************************)
(* findTag.                                                                *)
(***************************************************************************)
\* Faulty variant: the lookup tag is tried before the json tag.
lookupTagsLookupFirst == <<[tag |-> "lookup", optional |-> sOptional],
                           [tag |-> "json", optional |-> sOmitempty]>>

lookupTags == <<[tag |-> "json", optional |-> sOmitempty],
                [tag |-> "lookup", optional |-> sOptional]>>

notFound == Empty

\* strings.Split(s, ","): the pieces between the separators, at least one piece.
RECURSIVE SplitLoop(_, _, _, _)
SplitLoop(s, p, piece, acc) ==
    IF p > Len(s) THEN Append(acc, piece)
    ELSE IF s[p] = Comma THEN SplitLoop(s, p + 1, Empty, Append(acc, piece))
    ELSE SplitLoop(s, p + 1, Append(piece, s[p]), acc)

Split(s) == SplitLoop(s, 1, Empty, <<>>)

\* tag.Lookup(name): a struct tag is the function from the tag names it has to their values.
TagLookup(tag, name) ==
    IF name \in DOMAIN tag THEN [s |-> tag[name], ok |-> TRUE] ELSE [s |-> Empty, ok |-> FALSE]

\* Faulty variant: the marker of either tag system makes the field optional.
RECURSIVE findTagLoopAnyMarker(_, _)
findTagLoopAnyMarker(tag, d) ==
    IF d > Len(lookupTags) THEN [key |-> notFound, optional |-> FALSE]
    ELSE LET def == lookupTags[d]
             t == TagLookup(tag, def.tag)
         IN  IF t.ok /\ t.s # Empty
             THEN LET parts == Split(t.s)
                  IN  CASE Len(parts) = 0 -> [key |-> Empty, optional |-> FALSE]
                        [] Len(parts) = 1 -> [key |-> t.s, optional |-> FALSE]
                        [] OTHER -> [key |-> parts[1],
                                     optional |-> parts[2] \in {sOmitempty, sOptional}]
             ELSE findTagLoopAnyMarker(tag, d + 1)

RECURSIVE findTagLoop(_, _)
findTagLoop(tag, d) ==
    IF d > Len(lookupTags) THEN [key |-> notFound, optional |-> FALSE]
    ELSE LET def == lookupTags[d]
             t == TagLookup(tag, def.tag)
         IN  IF t.ok /\ t.s # Empty
             THEN LET parts == Split(t.s)
                  IN  CASE Len(parts) = 0 -> [key |-> Empty, optional |-> FALSE]
                        [] Len(parts) = 1 -> [key |-> t.s, optional |-> FALSE]
                        [] OTHER -> [key |-> parts[1], optional |-> parts[2] = def.optional]
             ELSE findTagLoop(tag, d + 1)

findTag(tag) == findTagLoop(tag, 1)

(***************************************************************************)
(* fmt.Sscanln(v+"\n", ptr) for the pointer types the model's fields have. *)
(* The scanner reads str from position p (the next rune to read); a scan   *)
(* error is the panic that doScan's errorHandler turns into the returned   *)
(* error.                                                                  *)
(***************************************************************************)
\* fmt's isSpace: the runes of its space table.  A rune that has no escape
\* in a string of this module is written as its code point.
isSpace(r) ==
    r \in {"\t", "\n", "U+000B", "\f", "\r", " ", "U+0085", "U+00A0", "U+1680",
           "U+2000", "U+2001", "U+2002", "U+2003", "U+2004", "U+2005", "U+2006",
           "U+2007", "U+2008", "U+2009", "U+200A", "U+2028", "U+2029", "U+202F",
           "U+205F", "U+3000"}

\* s.accept / s.peek on a set of runes: is the next rune one of them?
Peek(str, p, runes) == p <= Len(str) /\ str[p] \in runes

\* (s *ss) SkipSpace with nlIsSpace = false (the Scanln family).
RECURSIVE SkipSpace(_, _)
SkipSpace(str, p) ==
    IF p > Len(str) THEN [p |-> p, err |-> nil]
    ELSE IF str[p] = "\r" /\ Peek(str, p + 1, {NL}) THEN SkipSpace(str, p + 1)
    ELSE IF str[p] = NL THEN [p |-> p + 1, err |-> "unexpected newline"]
    ELSE IF ~isSpace(str[p]) THEN [p |-> p, err |-> nil]
    ELSE SkipSpace(str, p + 1)

\* s.notEOF() after s.SkipSpace(): sk is what SkipSpace returned.
notEOF(str, sk) ==
    IF sk.err # nil THEN sk
    ELSE IF sk.p > Len(str) THEN [p |-> sk.p, err |-> "unexpected EOF"]
    ELSE sk

\* SkipSpace followed by notEOF, the opening of every token scan.
TokenStart(str, p) == notEOF(str, SkipSpace(str, p))

boolError == "syntax error scanning boolean"

Scanned(p, err, val) == [p |-> p, err |-> err, val |-> val]

\* (s *ss) scanBool after s.getRune() returned r; p is the next rune.
scanBoolRune(str, r, p) ==
    CASE r = "0" -> Scanned(p, nil, FALSE)
      [] r = "1" -> Scanned(p, nil, TRUE)
      [] r \in {"t", "T"} ->
            IF Peek(str, p, {"r", "R"})
            THEN IF Peek(str, p + 1, {"u", "U"}) /\ Peek(str, p + 2, {"e", "E"})
                 THEN Scanned(p + 3, nil, TRUE)
                 ELSE Scanned(p + 1, boolError, FALSE)
            ELSE Scanned(p, nil, TRUE)
      [] r \in {"f", "F"} ->
            IF Peek(str, p, {"a", "A"})
            THEN IF /\ Peek(str, p + 1, {"l", "L"})
                    /\ Peek(str, p + 2, {"s", "S"})
                    /\ Peek(str, p + 3, {"e", "E"})
                 THEN Scanned(p + 4, nil, FALSE)
                 ELSE Scanned(p + 1, boolError, FALSE)
            ELSE Scanned(p, nil, FALSE)
      [] OTHER -> Scanned(p, nil, FALSE)

scanBoolAt(str, st) ==
    IF st.err # nil THEN Scanned(st.p, st.err, FALSE)
    ELSE scanBoolRune(str, str[st.p], st.p + 1)

\* (s *ss) scanBool: [p, err, val], val a boolean.
scanBool(str, p0) == scanBoolAt(str, TokenStart(str, p0))

DigitVal == [c \in {"0", "1", "2", "3", "4", "5", "6", "7", "8", "9"} |->
                CASE c = "0" -> 0 [] c = "1" -> 1 [] c = "2" -> 2 [] c = "3" -> 3
                  [] c = "4" -> 4 [] c = "5" -> 5 [] c = "6" -> 6 [] c = "7" -> 7
                  [] c = "8" -> 8 [] c = "9" -> 9]
decimalDigits == DOMAIN DigitVal
octalDigits == {"0", "1", "2", "3", "4", "5", "6", "7"}
sign == {"+", "-"}

\* (s *ss) scanBasePrefix: a leading "0" is consumed and selects octal.
\* The raw values of the model carry no base letter (b, o, x) and no '_'.
scanBasePrefix(str, p) ==
    IF Peek(str, p, {"0"})
    THEN [base |-> 8, digits |-> octalDigits, haveDigits |-> TRUE, p |-> p + 1]
    ELSE [base |-> 10, digits |-> decimalDigits, haveDigits |-> FALSE, p |-> p]

\* The end of the run of runes from p that are all in digits.
RECURSIVE DigitsEnd(_, _, _)
DigitsEnd(str, p, digits) ==
    IF Peek(str, p, digits) THEN DigitsEnd(str, p + 1, digits) ELSE p

\* (s *ss) scanNumber: the token ends where the digits end; without a digit
\* so far, the first rune must be one.
scanNumber(str, p, digits, haveDigits) ==
    IF ~haveDigits /\ p > Len(str) THEN [p |-> p, err |-> "unexpected EOF"]
    ELSE IF ~haveDigits /\ ~Peek(str, p, digits) THEN [p |-> p, err |-> "expected integer"]
    ELSE [p |-> DigitsEnd(str, p, digits), err |-> nil]

\* strconv.ParseInt on the digits str[from..to] in the given base.
RECURSIVE DigitsValue(_, _, _, _, _)
DigitsValue(str, from, to, base, acc) ==
    IF from > to THEN acc
    ELSE DigitsValue(str, from + 1, to, base, acc * base + DigitVal[str[from]])

\* x == (i << (64 - n)) >> (64 - n): i fits n bits.  Tokens of the model
\* are a few digits long, so every parsed number fits 64 bits.
FitsInt(x, n) ==
    CASE n = 8 -> x >= -128 /\ x <= 127
      [] n = 16 -> x >= -32768 /\ x <= 32767
      [] OTHER -> TRUE

scanIntValue(p, x, bitSize) ==
    IF ~FitsInt(x, bitSize) THEN Scanned(p, "integer overflow on token", 0)
    ELSE Scanned(p, nil, x)

scanIntToken(str, neg, pre, tok, bitSize) ==
    IF tok.err # nil THEN Scanned(tok.p, tok.err, 0)
    ELSE scanIntValue(tok.p,
                      IF neg THEN 0 - DigitsValue(str, pre.p, tok.p - 1, pre.base, 0)
                      ELSE DigitsValue(str, pre.p, tok.p - 1, pre.base, 0),
                      bitSize)

scanIntPrefixed(str, neg, pre, bitSize) ==
    scanIntToken(str, neg, pre, scanNumber(str, pre.p, pre.digits, pre.haveDigits), bitSize)

scanIntAt(str, st, bitSize) ==
    IF st.err # nil THEN Scanned(st.p, st.err, 0)
    ELSE scanIntPrefixed(str, Peek(str, st.p, {"-"}),
                         scanBasePrefix(str, IF Peek(str, st.p, sign) THEN st.p + 1 ELSE st.p),
                         bitSize)

\* (s *ss) scanInt with verb 'v': [p, err, val], val an integer.
scanInt(str, p0, bitSize) == scanIntAt(str, TokenStart(str, p0), bitSize)

\* doScan's check after the operands (nlIsEnd): only spaces up to the newline or EOF.
RECURSIVE NewlineCheck(_, _)
NewlineCheck(str, p) ==
    IF p > Len(str) \/ str[p] = NL THEN nil
    ELSE IF ~isSpace(str[p]) THEN "expected newline"
    ELSE NewlineCheck(str, p + 1)

bitSizeOf(kind) ==
    CASE kind = "int8" -> 8 [] kind = "int16" -> 16 [] OTHER -> 64

complexError == "syntax error scanning complex number"

\* (s *ss) floatToken from p: where the token ends.  An optional sign, the
\* digits, an optional period and the digits after it; the raw values of the
\* model carry no NaN, no Inf, no exponent, no base prefix and no '_'.
floatToken(str, p) ==
    IF Peek(str, DigitsEnd(str, IF Peek(str, p, sign) THEN p + 1 ELSE p, decimalDigits), {"."})
    THEN DigitsEnd(str, DigitsEnd(str, IF Peek(str, p, sign) THEN p + 1 ELSE p,
                                  decimalDigits) + 1, decimalDigits)
    ELSE DigitsEnd(str, IF Peek(str, p, sign) THEN p + 1 ELSE p, decimalDigits)

\* (s *ss) convertFloat on the token str[from..to]: strconv.ParseFloat.  A
\* token without a digit is a syntax error; the value is the whole number
\* the token writes (the tokens of the model that convert have no fraction).
convertFloat(str, from, to) ==
    IF DigitsEnd(str, IF Peek(str, from, sign) THEN from + 1 ELSE from, decimalDigits)
          = (IF Peek(str, from, sign) THEN from + 1 ELSE from)
    THEN [err |-> "invalid syntax", val |-> 0]
    ELSE [err |-> nil,
          val |-> IF Peek(str, from, {"-"})
                  THEN 0 - DigitsValue(str, from + 1,
                                       DigitsEnd(str, from + 1, decimalDigits) - 1, 10, 0)
                  ELSE DigitsValue(str, IF Peek(str, from, sign) THEN from + 1 ELSE from,
                                   DigitsEnd(str, IF Peek(str, from, sign) THEN from + 1
                                                  ELSE from, decimalDigits) - 1, 10, 0)]

\* (s *ss) complexTokens with the real token starting at r0 and ending
\* before r1: a sign must follow, then the imaginary token, "i", and ")"
\* when the number opened with "(".
complexTokens(str, parens, r0, r1) ==
    IF ~Peek(str, r1, sign) THEN [err |-> complexError, p |-> r1, r0 |-> r0, r1 |-> r1, i1 |-> r1]
    ELSE IF ~Peek(str, floatToken(str, r1 + 1), {"i"})
    THEN [err |-> complexError, p |-> floatToken(str, r1 + 1), r0 |-> r0, r1 |-> r1, i1 |-> r1]
    ELSE IF parens /\ ~Peek(str, floatToken(str, r1 + 1) + 1, {")"})
    THEN [err |-> complexError, p |-> floatToken(str, r1 + 1) + 1, r0 |-> r0, r1 |-> r1, i1 |-> r1]
    ELSE [err |-> nil, p |-> floatToken(str, r1 + 1) + (IF parens THEN 2 ELSE 1),
          r0 |-> r0, r1 |-> r1, i1 |-> floatToken(str, r1 + 1)]

\* scanComplex once complexTokens has returned tk: both tokens are converted.
scanComplexTokens(str, tk) ==
    IF tk.err # nil THEN Scanned(tk.p, tk.err, <<0, 0>>)
    ELSE IF convertFloat(str, tk.r0, tk.r1 - 1).err # nil
    THEN Scanned(tk.p, convertFloat(str, tk.r0, tk.r1 - 1).err, <<0, 0>>)
    ELSE IF convertFloat(str, tk.r1, tk.i1 - 1).err # nil
    THEN Scanned(tk.p, convertFloat(str, tk.r1, tk.i1 - 1).err, <<0, 0>>)
    ELSE Scanned(tk.p, nil, <<convertFloat(str, tk.r0, tk.r1 - 1).val,
                              convertFloat(str, tk.r1, tk.i1 - 1).val>>)

\* (s *ss) scanComplex with verb 'v': [p, err, val], val the pair of parts.
scanComplexAt(str, st) ==
    IF st.err # nil THEN Scanned(st.p, st.err, <<0, 0>>)
    ELSE scanComplexTokens(str,
            complexTokens(str, Peek(str, st.p, {"("}),
                          IF Peek(str, st.p, {"("}) THEN st.p + 1 ELSE st.p,
                          floatToken(str, IF Peek(str, st.p, {"("}) THEN st.p + 1 ELSE st.p)))

scanComplex(str, p0) == scanComplexAt(str, TokenStart(str, p0))

\* (s *ss) scanOne on *bool, on the signed integer pointers and on the
\* complex pointers: the value scanned, as a value of the field's type.
scanOneValue(kind, sc) ==
    CASE kind = "bool" -> Scanned(sc.p, sc.err, BoolV(sc.val))
      [] kind \in {"complex64", "complex128"} ->
            Scanned(sc.p, sc.err, ComplexV(kind, sc.val[1], sc.val[2]))
      [] OTHER -> Scanned(sc.p, sc.err, IntV(kind, sc.val))

scanOne(str, kind) ==
    scanOneValue(kind, CASE kind = "bool" -> scanBool(str, 1)
                         [] kind \in {"complex64", "complex128"} -> scanComplex(str, 1)
                         [] OTHER -> scanInt(str, 1, bitSizeOf(kind)))

\* doScan with one operand: scanOne stores the scanned value through the
\* pointer, then doScan looks for the newline.
doScan(str, sc) ==
    IF sc.err # nil THEN [n |-> 0, err |-> sc.err, assigned |-> FALSE, val |-> sc.val]
    ELSE [n |-> 1, err |-> NewlineCheck(str, sc.p), assigned |-> TRUE, val |-> sc.val]

\* fmt.Sscanln(str, &field): n, err, and whether and with what *ptr was assigned.
Sscanln(str, kind) == doScan(str, scanOne(str, kind))

(***************************************************************************)
(* encoding/base64, RawStdEncoding: the standard alphabet, no padding.     *)
(***************************************************************************)
encodeStd ==
    <<"A", "B", "C", "D", "E", "F", "G", "H", "I", "J", "K", "L", "M", "N", "O", "P",
      "Q", "R", "S", "T", "U", "V", "W", "X", "Y", "Z", "a", "b", "c", "d", "e", "f",
      "g", "h", "i", "j", "k", "l", "m", "n", "o", "p", "q", "r", "s", "t", "u", "v",
      "w", "x", "y", "z", "0", "1", "2", "3", "4", "5", "6", "7", "8", "9", "+", "/">>

\* The 6-bit value of the character c in the alphabet, 255 when it has none.
decodeMap(c) ==
    IF \E k \in 1..64 : encodeStd[k] = c THEN (CHOOSE k \in 1..64 : encodeStd[k] = c) - 1
    ELSE 255

\* Faulty variant: the characters after the last group of four are dropped.
RECURSIVE decodeQuantaWhole(_, _)
decodeQuantaWhole(d, p) ==
    IF Len(d) - p + 1 < 4 THEN <<>>
    ELSE <<(d[p] * 64 + d[p + 1]) \div 16,
           ((d[p + 1] * 64 + d[p + 2]) \div 4) % 256,
           (d[p + 2] * 64 + d[p + 3]) % 256>> \o decodeQuantaWhole(d, p + 4)

\* The bytes the 6-bit values d[p..] decode to: three for four values, two
\* for three at the end, one for two at the end; the bits left over are not
\* checked (the encoding is not strict).
RECURSIVE decodeQuanta(_, _)
decodeQuanta(d, p) ==
    CASE Len(d) - p + 1 >= 4 ->
            <<(d[p] * 64 + d[p + 1]) \div 16,
              ((d[p + 1] * 64 + d[p + 2]) \div 4) % 256,
              (d[p + 2] * 64 + d[p + 3]) % 256>> \o decodeQuanta(d, p + 4)
      [] Len(d) - p + 1 = 3 ->
            <<(d[p] * 64 + d[p + 1]) \div 16, ((d[p + 1] * 64 + d[p + 2]) \div 4) % 256>>
      [] Len(d) - p + 1 = 2 -> <<(d[p] * 64 + d[p + 1]) \div 16>>
      [] OTHER -> <<>>

\* DecodeString once "\r" and "\n" are dropped from the input, as the
\* decoder does: a character outside the alphabet ("=" is one) and a single
\* character left at the end are errors.
decodeStripped(str) ==
    IF (\E p \in 1..Len(str) : decodeMap(str[p]) = 255) \/ Len(str) % 4 = 1
    THEN [err |-> "illegal base64 data", b |-> <<>>]
    ELSE [err |-> nil, b |-> decodeQuanta([p \in 1..Len(str) |-> decodeMap(str[p])], 1)]

\* base64.RawStdEncoding.DecodeString(v).
DecodeString(v) == decodeStripped(SelectSeq(v, LAMBDA c : c \notin {"\r", NL}))

(***************************************************************************)
(* setField.  The result lists what setField did, in order: "set" is a     *)
(* write to the field, "report" a call r.Report(fieldKey, val).  A field   *)
(* reached through the struct pointer is always addressable.               *)
(***************************************************************************)
Did(op, val) == [op |-> op, val |-> val]

\* Faulty variant: the Reporter is called before the value is scanned into the field.
setFieldScannedReportFirst(sc) ==
    IF sc.err # nil
    THEN [err |-> sc.err, did |-> IF sc.assigned THEN <<Did("set", sc.val)>> ELSE <<>>]
    ELSE IF sc.n # 1 THEN [err |-> "nothing to read", did |-> <<>>]
    ELSE [err |-> nil, did |-> <<Did("report", sc.val), Did("set", sc.val)>>]

\* setField's default case once Sscanln has returned sc.
setFieldScanned(sc) ==
    IF sc.err # nil
    THEN [err |-> sc.err, did |-> IF sc.assigned THEN <<Did("set", sc.val)>> ELSE <<>>]
    ELSE IF sc.n # 1 THEN [err |-> "nothing to read", did |-> <<>>]
    ELSE [err |-> nil, did |-> <<Did("set", sc.val), Did("report", sc.val)>>]

\* Faulty variant: the string case reports by itself and then runs into the
\* Report call that ends setField.
setFieldTwice(kind, v, fieldKey, fieldName) ==
    IF kind = "string"
    THEN [err |-> nil,
          did |-> <<Did("set", StrV(v)), Did("report", StrV(v)), Did("report", StrV(v))>>]
    ELSE setFieldScanned(Sscanln(Append(v, NL), kind))

\* setField's case []byte once DecodeString has returned d.
setFieldDecoded(d) ==
    IF d.err # nil THEN [err |-> d.err, did |-> <<>>]
    ELSE [err |-> nil, did |-> <<Did("set", BytesV(d.b)), Did("report", BytesV(d.b))>>]

setField(kind, v, fieldKey, fieldName) ==
    CASE kind = "string" ->
            [err |-> nil, did |-> <<Did("set", StrV(v)), Did("report", StrV(v))>>]
      [] kind = "[]byte" -> setFieldDecoded(DecodeString(v))
      [] OTHER -> setFieldScanned(Sscanln(Append(v, NL), kind))

(***************************************************************************)
(* Lookup.                                                                 *)
(***************************************************************************)
Err(kind, field, value, type, cause) ==
    [kind |-> kind, field |-> field, value |-> value, type |-> type, cause |-> cause]

NilErr == Err("nil", "", Empty, "", nil)
NotReturned == Err("not returned", "", Empty, "", nil)

\* One entry of the trace.  field is the index of the field being processed,
\* src the index of the Looker asked (0 for writes and reports).
CallEv(f, key, c) ==
    [op |-> "call", field |-> f, src |-> c.src, key |-> key,
     val |-> StrV(c.ans.v), b |-> c.ans.b, err |-> c.ans.err]
DidEv(f, key, d) ==
    [op |-> d.op, field |-> f, src |-> 0, key |-> key, val |-> d.val, b |-> FALSE, err |-> nil]

\* The Lookers once the calls among the events were made: a Looker is asked
\* at most once for one field.
Asked(l, events) ==
    [j \in 1..Len(l) |->
        IF \E k \in 1..Len(events) : events[k].op = "call" /\ events[k].src = j
        THEN AfterLookupKey(l[j], events[CHOOSE k \in 1..Len(events) :
                                            events[k].op = "call" /\ events[k].src = j].key)
        ELSE l[j]]

CallEvs(f, key, calls) == [c \in 1..Len(calls) |-> CallEv(f, key, calls[c])]
DidEvs(f, key, did) == [k \in 1..Len(did) |-> DidEv(f, key, did[k])]

\* The field value after the writes among did.
RECURSIVE AfterWrites(_, _, _)
AfterWrites(cur, did, k) ==
    IF k > Len(did) THEN cur
    ELSE AfterWrites(IF did[k].op = "set" THEN did[k].val ELSE cur, did, k + 1)

\* The locals of the loop body: no lookup was made (field 0), or lookupKey
\* returned lk for the key of field idx.
NoGot == [field |-> 0, key |-> Empty, v |-> Empty, b |-> FALSE, err |-> nil]
Got(idx, key, lk) == [field |-> idx, key |-> key, v |-> lk.v, b |-> lk.b, err |-> lk.err]

Outcome(r, events, err, path, g) ==
    [rec |-> r, events |-> events, ret |-> err, path |-> path, got |-> g]

\* Faulty variant: the error of setField is dropped and the loop goes on.
CoercedSwallow(fieldType, r, idx, key, calls, v, sf, g) ==
    Outcome([r EXCEPT ![idx] = AfterWrites(r[idx], sf.did, 1)],
            calls \o DidEvs(idx, key, sf.did), NilErr,
            IF sf.err # nil THEN "setField failed" ELSE "set", g)

\* Lookup lines 129-133 (case ok): setField returned sf.
Coerced(fieldType, r, idx, key, calls, v, sf, g) ==
    IF sf.err # nil
    THEN Outcome([r EXCEPT ![idx] = AfterWrites(r[idx], sf.did, 1)],
                 calls \o DidEvs(idx, key, sf.did),
                 Err("value %q for field %q is not %T: %s",
                     fieldType.name, v, fieldType.kind, sf.err),
                 "setField failed", g)
    ELSE Outcome([r EXCEPT ![idx] = AfterWrites(r[idx], sf.did, 1)],
                 calls \o DidEvs(idx, key, sf.did), NilErr, "set", g)

\* Faulty variant: the switch has no case for a missing required field.
SwitchNoRequired(fieldType, r, idx, t, lk, calls, g) ==
    CASE lk.err # nil ->
            Outcome(r, calls,
                    Err("lookup for for field %q failed: %s", fieldType.name, Empty, "", lk.err),
                    "lookup failed", g)
      [] lk.err = nil /\ lk.b ->
            Coerced(fieldType, r, idx, t.key, calls, lk.v,
                    setField(fieldType.kind, lk.v, t.key, fieldType.name), g)
      [] OTHER ->
            Outcome(r, Append(calls, DidEv(idx, t.key, Did("report", StrV(lk.v)))),
                    NilErr, IF t.optional THEN "optional" ELSE "missing", g)

\* Lookup lines 126-139: the switch on what lookupKey returned (lk).
Switch(fieldType, r, idx, t, lk, calls, g) ==
    CASE lk.err # nil ->
            Outcome(r, calls,
                    Err("lookup for for field %q failed: %s", fieldType.name, Empty, "", lk.err),
                    "lookup failed", g)
      [] lk.err = nil /\ lk.b ->
            Coerced(fieldType, r, idx, t.key, calls, lk.v,
                    setField(fieldType.kind, lk.v, t.key, fieldType.name), g)
      [] lk.err = nil /\ ~lk.b /\ ~t.optional ->
            Outcome(r, calls,
                    Err("missing value for required field %q", fieldType.name, Empty, "", nil),
                    "missing", g)
      [] OTHER ->
            Outcome(r, Append(calls, DidEv(idx, t.key, Did("report", StrV(lk.v)))),
                    NilErr, "optional", g)

Looked(fieldType, r, idx, t, lk) ==
    Switch(fieldType, r, idx, t, lk, CallEvs(idx, t.key, lk.calls), Got(idx, t.key, lk))

\* Faulty variant: a field without a key is looked up under its name.
TaggedByName(fieldType, r, l, idx, t) ==
    IF t.key = notFound
    THEN Looked(fieldType, r, idx, [key |-> <<fieldType.name>>, optional |-> TRUE],
                lookupKey(<<fieldType.name>>, l))
    ELSE Looked(fieldType, r, idx, t, lookupKey(t.key, l))

\* Lookup lines 120-125: findTag returned t.
Tagged(fieldType, r, l, idx, t) ==
    IF t.key = notFound THEN Outcome(r, <<>>, NilErr, "continue", NoGot)
    ELSE Looked(fieldType, r, idx, t, lookupKey(t.key, l))

\* The body of Lookup's for loop for field idx of a struct with the given
\* field declarations and values r, against the Lookers l: the struct
\* afterwards, what happened in order, the error returned (NilErr when the
\* loop goes on) and the path taken.
Iteration(fields, r, l, idx) ==
    Tagged(fields[idx], r, l, idx, findTag(fields[idx].tag))

\* Lookup as a function: what a whole call returns and leaves behind, from
\* loop index idx on.
RECURSIVE LookupFrom(_, _, _, _, _)
LookupStep(fields, l, idx, tr, it) ==
    IF it.ret # NilErr
    THEN [rec |-> it.rec, trace |-> tr \o it.events, ret |-> it.ret]
    ELSE LookupFrom(fields, Asked(l, it.events), idx + 1, it.rec, tr \o it.events)

LookupFrom(fields, l, idx, r, tr) ==
    IF idx > Len(fields) THEN [rec |-> r, trace |-> tr, ret |-> NilErr]
    ELSE LookupStep(fields, l, idx, tr, Iteration(fields, r, l, idx))

\* Faulty variant: a nil pointer is not rejected.
LookupFnNoNilCheck(arg, r, l) ==
    IF arg.kind = "struct"
    THEN [rec |-> r, trace |-> <<>>,
          ret |-> Err("Lookup needs a pointer argument", "", Empty, "", nil)]
    ELSE LookupFrom(arg.fields, l, 1, r, <<>>)

LookupFn(arg, r, l) ==
    IF arg.kind # "ptr"
    THEN [rec |-> r, trace |-> <<>>,
          ret |-> Err("Lookup needs a pointer argument", "", Empty, "", nil)]
    ELSE LookupFrom(arg.fields, l, 1, r, <<>>)

(***************************************************************************)
(* reporter.go.  A Reporter is a value: FmtReporters write to one shared   *)
(* bytes.Buffer (buf), MapReporters are copies of one MapReporter and      *)
(* store into its Map (dest).  A Regexp is the text t of the pattern       *)
(* .*t.* , as in the test.                                                 *)
(***************************************************************************)
FmtReporter(Prefix) == [kind |-> "Fmt", Prefix |-> Prefix]
MapReporter == [kind |-> "Map"]
FilterSecretsReporter(Reporter, Regexp) ==
    [kind |-> "Filter", Reporter |-> Reporter, Regexp |-> Regexp]
DupReporter(items) == [kind |-> "Dup", items |-> items]
discard == [kind |-> "discard"]
nilReporter == [kind |-> "nil"]

\* strconv's decimal digits of n >= 0.
RECURSIVE FormatUint(_)
FormatUint(n) ==
    LET d == <<"0", "1", "2", "3", "4", "5", "6", "7", "8", "9">>[(n % 10) + 1]
    IN  IF n < 10 THEN <<d>> ELSE Append(FormatUint(n \div 10), d)

\* strconv's decimal digits of an integer n.
FormatInt(n) == IF n < 0 THEN <<"-">> \o FormatUint(0 - n) ELSE FormatUint(n)

\* fmt's %v of the elements of a []byte from position p on: decimal numbers
\* with a space between them.
RECURSIVE fmtBytes(_, _)
fmtBytes(b, p) ==
    IF p > Len(b) THEN Empty
    ELSE (IF p > 1 THEN <<" ">> ELSE Empty) \o FormatUint(b[p]) \o fmtBytes(b, p + 1)

\* fmt.Sprint(v), and the verb %v of Fprintf.  A complex number prints as
\* (%g%+gi), which for the whole parts of the model is the parts' decimal
\* digits; a []byte prints its elements between brackets.
Sprint(v) ==
    CASE v.kind = "string" -> v.s
      [] v.kind = "bool" -> IF v.b THEN <<"t", "r", "u", "e">> ELSE <<"f", "a", "l", "s", "e">>
      [] v.kind = "nil" -> <<"<", "n", "i", "l", ">">>
      [] v.kind \in {"complex64", "complex128"} ->
            <<"(">> \o FormatInt(v.n) \o (IF v.im < 0 THEN Empty ELSE <<"+">>)
                   \o FormatInt(v.im) \o <<"i", ")">>
      [] v.kind = "[]byte" -> <<"[">> \o fmtBytes(v.bytes, 1) \o <<"]">>
      [] OTHER -> FormatInt(v.n)

\* r.Regexp.MatchString(key) for the pattern .*t.* : key contains t.
MatchString(t, key) ==
    \E p \in 0..(Len(key) - Len(t)) : SubSeq(key, p + 1, p + Len(t)) = t

sEmptyMark == <<"(", "e", "m", "p", "t", "y", ")">>
sNotEmptyMark == <<"(", "n", "o", "t", " ", "e", "m", "p", "t", "y", ")">>

\* Faulty variant: the value of a protected key is forwarded as it is.
FilterValueNoRedaction(r, key, v) == v

\* FilterSecretsReporter.Report lines 350-356: v is "" for a nil value and
\* fmt.Sprint of the value otherwise.
FilterValue(r, key, v) ==
    IF MatchString(r.Regexp, key)
    THEN IF v = Empty THEN sEmptyMark ELSE sNotEmptyMark
    ELSE v

\* What Report calls write: the buffer and the Map.
Written(buf, dest) == [buf |-> buf, dest |-> dest]

\* r.Report(key, v) on the buffer and the Map as w has them.
RECURSIVE Report(_, _, _, _)
RECURSIVE DupReport(_, _, _, _, _)
Report(r, w, key, v) ==
    CASE r.kind = "Fmt" ->
            Written(w.buf \o r.Prefix \o key \o <<"=">> \o Sprint(v) \o <<NL>>, w.dest)
      [] r.kind = "Map" -> Written(w.buf, (key :> Sprint(v)) @@ w.dest)
      [] r.kind = "Filter" ->
            Report(r.Reporter, w, key,
                   StrV(FilterValue(r, key, IF v # NilV THEN Sprint(v) ELSE Empty)))
      [] r.kind = "Dup" -> DupReport(r, w, key, v, 1)
      [] OTHER -> w

\* Faulty variant: only the first item gets the call.
DupReportFirstOnly(r, w, key, v, n) ==
    IF n > Len(r.items) THEN w ELSE Report(r.items[n], w, key, v)

\* DupReporter.Report: the for loop over the items, from item n on.
DupReport(r, w, key, v, n) ==
    IF n > Len(r.items) THEN w
    ELSE DupReport(r, Report(r.items[n], w, key, v), key, v, n + 1)

\* The Reporter of a call of Lookup with the buffer and the Map it writes to.
Rep(r, w) == [r |-> r, buf |-> w.buf, dest |-> w.dest]

\* Faulty variant: a nil Reporter is used as it is.
UsedReporterNoDiscard(r) == r

\* Lookup lines 109-111: discard stands in for a nil Reporter.
UsedReporter(r) == IF r.kind = "nil" THEN discard ELSE r

\* Calling Report on a nil Reporter is a call through a nil interface: the
\* Go runtime panics and Lookup does not return to its caller.
PanicErr == Err("panic: invalid memory address or nil pointer dereference", "", Empty, "", nil)
Panics(r, events) ==
    /\ UsedReporter(r).kind = "nil"
    /\ \E n \in 1..Len(events) : events[n].op = "report"

\* How an iteration of the loop ends with Reporter r: with the error of
\* the switch, or in the panic of the Report call.
Returned(r, it) == IF Panics(r, it.events) THEN PanicErr ELSE it.ret

\* The Report calls among the events of Lookup, from event n on, made on the
\* Reporter Lookup uses.
RECURSIVE LookupReports(_, _, _, _)
LookupReports(r, w, events, n) ==
    IF n > Len(events) THEN w
    ELSE LookupReports(r,
                       IF events[n].op = "report"
                       THEN Report(UsedReporter(r), w, events[n].key, events[n].val)
                       ELSE w,
                       events, n + 1)

(***************************************************************************)
(* The structs and Lookers the model runs Lookup on.                       *)
(***************************************************************************)
Decl(name, kind, tag) == [name |-> name, kind |-> kind, tag |-> tag]

\* A field without any tag.
NoTag == [x \in {} |-> Empty]

\* The field declarations structs are made of: a struct type of the model
\* is a run of consecutive declarations of this list, taken cyclically.
Decls ==
    <<Decl("A", "bool", "lookup" :> WithMarker(sA, sOptional)),
      Decl("B", "int64", "lookup" :> sB),
      Decl("U", "string", NoTag),
      Decl("C", "int8", ("json" :> sC) @@ ("lookup" :> WithMarker(sA, sOptional))),
      Decl("D", "string", ("json" :> WithMarker(sD, sOmitempty)) @@ ("lookup" :> sB)),
      Decl("E", "int", "lookup" :> WithMarker(sC, sOptional))>>

Window(start, n) == [k \in 1..n |-> Decls[((start + k - 2) % Len(Decls)) + 1]]

StructTypes == {Window(start, n) : start \in 1..Len(Decls), n \in 0..MaxFields}

\* The value a field holds before Lookup is called (the caller may have
\* filled the struct already).
Prior(kind) ==
    CASE kind = "bool" -> BoolV(TRUE)
      [] kind = "string" -> StrV(<<"p">>)
      [] kind \in {"complex64", "complex128"} -> ComplexV(kind, 7, 7)
      [] kind = "[]byte" -> BytesV(<<7>>)
      [] OTHER -> IntV(kind, 7)

Lookers ==
    {Looker("NoError", (sA :> Found(<<"f">>)) @@ (sB :> Found(<<"1">>)), Ans(Empty, FALSE, nil)),
     Looker("Map", (sB :> Found(<<"4", ".", "9">>)) @@ (sC :> Found(<<"1", "2">>))
                   @@ (sD :> Found(<<"x">>)), Ans(Empty, FALSE, nil)),
     Looker("Map", (sA :> Found(<<"n", "o">>)) @@ (sC :> Found(<<"3", "0", "0">>)),
            Ans(Empty, FALSE, nil)),
     Looker("NoBool", NoEntries, Ans(<<"1">>, FALSE, nil)),
     Looker("NoBool", NoEntries, Ans(Empty, FALSE, "F failed")),
     Looker("Looker", NoEntries, Ans(Empty, FALSE, "load failed"))}

RECURSIVE SeqsUpTo(_, _)
SeqsUpTo(S, n) ==
    IF n = 0 THEN {<<>>}
    ELSE LET shorter == SeqsUpTo(S, n - 1)
         IN  shorter \cup {Append(q, x) : q \in shorter, x \in S}

\* What Lookup is called with: a pointer to a struct, a nil pointer, or a
\* struct passed by value.
Args ==
    {[kind |-> "ptr", fields |-> t] : t \in StructTypes}
    \cup {[kind |-> k, fields |-> Window(1, MaxFields)] : k \in {"nil", "struct"}}

\* No thread calls a Looker on its own.
Threads == 1..MaxThreads
\* seen is the l.extraArgs a thread has read for its append, m the map
\* (counted by the make that created it) it has begun to store into.
Thread(pc0, key, n, err, returned, ans) ==
    [pc |-> pc0, key |-> key, n |-> n, err |-> err, returned |-> returned, ans |-> ans,
     seen |-> <<>>, m |-> 0]
Idle == Thread("idle", Empty, 0, nil, FALSE, Ans(Empty, FALSE, nil))

NoThreads ==
    /\ src = Looker("Map", NoEntries, Ans(Empty, FALSE, nil))
    /\ mutex = 0
    /\ th = [t \in Threads |-> Idle]
    /\ ncalls = 0

\* What the caller keeps of a call of Lookup: the error, the struct and the
\* Reporter's entries; n counts the calls made before the current one.
NoPrev == [n |-> 0, ret |-> NotReturned, rec |-> <<>>, reports |-> <<>>]

\* Lookup is called with a nil Reporter; nothing is written yet.
NoWritten == Written(Empty, [x \in {} |-> Empty])
NoReporter == Rep(nilReporter, NoWritten)

Init ==
    /\ e \in Args
    /\ rec0 = [k \in 1..Len(e.fields) |-> Prior(e.fields[k].kind)]
    /\ rec = rec0
    /\ seq \in SeqsUpTo(Lookers, MaxSeq)
    /\ pc = "call"
    /\ i = 0
    /\ trace = <<>>
    /\ got = NoGot
    /\ ret = NotReturned
    /\ prev = NoPrev
    /\ rep = NoReporter
    /\ NoThreads

(***************************************************************************)
(* The steps of one call of Lookup.                                        *)
(***************************************************************************)
\* Lookup lines 104-107: the argument is not a pointer, or is a nil pointer.
BadPointer ==
    /\ pc = "call"
    /\ e.kind # "ptr"
    /\ pc' = "done"
    /\ ret' = LookupFn(e, rec, seq).ret
    /\ rec' = LookupFn(e, rec, seq).rec
    /\ trace' = trace \o LookupFn(e, rec, seq).trace
    /\ UNCHANGED <<e, rec0, seq, i, got, prev, rep>>
    /\ UNCHANGED sourceVars

\* Lookup lines 109-116: the loop starts at the first field.
Enter ==
    /\ pc = "call"
    /\ e.kind = "ptr"
    /\ pc' = "loop"
    /\ i' = 1
    /\ UNCHANGED <<e, rec, rec0, seq, trace, got, ret, prev, rep>>
    /\ UNCHANGED sourceVars

\* Faulty variant: a failing pass puts the struct back as it was at the call.
TakenRollback(it, path) ==
    /\ it.path = path
    /\ rec' = IF Returned(rep.r, it) = NilErr THEN it.rec ELSE rec0
    /\ trace' = trace \o it.events
    /\ seq' = Asked(seq, it.events)
    /\ got' = it.got
    /\ rep' = Rep(rep.r, LookupReports(rep.r, rep, it.events, 1))
    /\ IF Returned(rep.r, it) = NilErr
       THEN pc' = "loop" /\ i' = i + 1 /\ ret' = ret
       ELSE pc' = "done" /\ i' = i /\ ret' = Returned(rep.r, it)

\* The loop body did it: the loop goes on with the next field, or Lookup returns.
Taken(it, path) ==
    /\ it.path = path
    /\ rec' = it.rec
    /\ trace' = trace \o it.events
    /\ seq' = Asked(seq, it.events)
    /\ got' = it.got
    /\ rep' = Rep(rep.r, LookupReports(rep.r, rep, it.events, 1))
    /\ IF Returned(rep.r, it) = NilErr
       THEN pc' = "loop" /\ i' = i + 1 /\ ret' = ret
       ELSE pc' = "done" /\ i' = i /\ ret' = Returned(rep.r, it)

\* Lookup lines 120-123: findTag finds no key, the field is skipped.
SkipField ==
    /\ pc = "loop"
    /\ i <= Len(e.fields)
    /\ Taken(Iteration(e.fields, rec, seq, i), "continue")
    /\ UNCHANGED <<e, rec0, prev>>
    /\ UNCHANGED sourceVars

\* Lookup lines 127-128: lookupKey returned an error.
LookupFailed ==
    /\ pc = "loop"
    /\ i <= Len(e.fields)
    /\ Taken(Iteration(e.fields, rec, seq, i), "lookup failed")
    /\ UNCHANGED <<e, rec0, prev>>
    /\ UNCHANGED sourceVars

\* Lookup lines 129-130: a value was found and setField stored it.
SetFieldOk ==
    /\ pc = "loop"
    /\ i <= Len(e.fields)
    /\ Taken(Iteration(e.fields, rec, seq, i), "set")
    /\ UNCHANGED <<e, rec0, prev>>
    /\ UNCHANGED sourceVars

\* Lookup lines 130-133: a value was found and setField failed.
SetFieldFailed ==
    /\ pc = "loop"
    /\ i <= Len(e.fields)
    /\ Taken(Iteration(e.fields, rec, seq, i), "setField failed")
    /\ UNCHANGED <<e, rec0, prev>>
    /\ UNCHANGED sourceVars

\* Lookup lines 135-136: no value for a field that is not optional.
MissingRequired ==
    /\ pc = "loop"
    /\ i <= Len(e.fields)
    /\ Taken(Iteration(e.fields, rec, seq, i), "missing")
    /\ UNCHANGED <<e, rec0, prev>>
    /\ UNCHANGED sourceVars

\* Lookup lines 137-138: no value for an optional field.
MissingOptional ==
    /\ pc = "loop"
    /\ i <= Len(e.fields)
    /\ Taken(Iteration(e.fields, rec, seq, i), "optional")
    /\ UNCHANGED <<e, rec0, prev>>
    /\ UNCHANGED sourceVars

\* Lookup line 141: every field was processed.
Return ==
    /\ pc = "loop"
    /\ i > Len(e.fields)
    /\ pc' = "done"
    /\ ret' = NilErr
    /\ UNCHANGED <<e, rec, rec0, seq, i, trace, got, prev, rep>>
    /\ UNCHANGED sourceVars

Next ==
    \/ BadPointer
    \/ Enter
    \/ SkipField
    \/ LookupFailed
    \/ SetFieldOk
    \/ SetFieldFailed
    \/ MissingRequired
    \/ MissingOptional
    \/ Return

Spec == Init /\ [][Next]_vars

(***************************************************************************)
(* Lookup called again on the same struct with the same Looker values,     *)
(* among them the Lookers that load on their first call.                   *)
(***************************************************************************)
Arg(str) == prefix \o str

AgainLookers ==
    {Stateful("jsonFile", "object", (sB :> Found(<<"2">>)) @@ (sD :> Found(<<"x">>)), <<>>),
     Stateful("jsonFile", "bad", NoEntries, <<>>),
     Stateful("jsonFile", "null", NoEntries, <<>>),
     Stateful("jsonRequest", "object",
              (sA :> Found(<<"t", "r", "u", "e">>)) @@ (sB :> Found(<<"4", ".", "9">>)), <<>>),
     Stateful("jsonRequest", "bad", NoEntries, <<>>),
     Stateful("jsonRequest", "null", NoEntries, <<>>),
     NewArgs(prefix, <<Arg(<<"A", "=", "f">>), <<"x">>, Arg(sB)>>),
     NewArgs(prefix, <<Arg(<<"B", "=">>), Arg(Arg(<<"A", "=", "r">>)), Arg(<<"D", "=", "x", NL, "y">>)>>),
     NewArgs(Empty, <<sB, <<"D", "=", NL>>>>),
     NewForm("ok", <<<<"A", "=">>, <<"A", "=", "f">>, sB, <<"A", "=", "t">>>>),
     NewForm("malformed", <<<<"B", "=", "2">>, <<"D", "=">>>>),
     Looker("Map", sC :> Found(<<"1", "2">>), Ans(Empty, FALSE, nil))}

InitAgain ==
    /\ e \in Args
    /\ rec0 = [k \in 1..Len(e.fields) |-> Prior(e.fields[k].kind)]
    /\ rec = rec0
    /\ seq \in SeqsUpTo(AgainLookers, MaxSeq - 1)
    /\ pc = "call"
    /\ i = 0
    /\ trace = <<>>
    /\ got = NoGot
    /\ ret = NotReturned
    /\ prev = NoPrev
    /\ rep = NoReporter
    /\ NoThreads

\* The caller keeps what the call gave and calls Lookup again with the same
\* arguments.
Again ==
    /\ pc = "done"
    /\ prev.n + 1 < MaxCalls
    /\ prev' = [n |-> prev.n + 1, ret |-> ret, rec |-> rec,
                reports |-> SelectSeq(trace, LAMBDA ev : ev.op = "report")]
    /\ rec0' = rec
    /\ trace' = <<>>
    /\ got' = NoGot
    /\ i' = 0
    /\ ret' = NotReturned
    /\ pc' = "call"
    /\ UNCHANGED <<e, rec, seq, rep>>
    /\ UNCHANGED sourceVars

NextAgain ==
    \/ BadPointer
    \/ Enter
    \/ SkipField
    \/ LookupFailed
    \/ SetFieldOk
    \/ SetFieldFailed
    \/ MissingRequired
    \/ MissingOptional
    \/ Return
    \/ Again

SpecAgain == InitAgain /\ [][NextAgain]_vars

(***************************************************************************)
(* Threads calling LookupKey on one jsonLooker, jsonRequestLooker or       *)
(* ArgsLooker, statement by statement.  The steps of the threads           *)
(* interleave; a step reads and writes the Looker as the last step that    *)
(* wrote it left it.                                                       *)
(***************************************************************************)
Keys == {sA, sB}

Sources ==
    {Stateful("jsonFile", "object", sA :> Found(<<"1">>), <<>>),
     Stateful("jsonFile", "null", NoEntries, <<>>),
     Stateful("jsonFile", "bad", NoEntries, <<>>),
     Stateful("jsonFile", "missing", NoEntries, <<>>),
     Stateful("jsonRequest", "object", sA :> Found(<<"1">>), <<>>),
     Stateful("jsonRequest", "null", NoEntries, <<>>),
     Stateful("jsonRequest", "bad", NoEntries, <<>>),
     NewArgs(prefix, <<<<"x">>, Arg(<<"A", "=", "1">>)>>)}

InitSrc ==
    /\ e = [kind |-> "nil", fields |-> <<>>]
    /\ rec0 = <<>>
    /\ rec = <<>>
    /\ seq = <<>>
    /\ pc = "idle"
    /\ i = 0
    /\ trace = <<>>
    /\ got = NoGot
    /\ ret = NotReturned
    /\ prev = NoPrev
    /\ rep = NoReporter
    /\ src \in Sources
    /\ mutex = 0
    /\ th = [t \in Threads |-> Idle]
    /\ ncalls = 0

IsJson == src.kind \in {"jsonFile", "jsonRequest"}

\* Thread t goes on as the record now says.
Goes(t, now) == th' = [th EXCEPT ![t] = now]

\* Thread t returns a from LookupKey.
Returns(t, a) == Goes(t, [th[t] EXCEPT !.pc = "idle", !.returned = TRUE, !.ans = a])

\* A thread calls src.LookupKey(k).
Call ==
    \E t \in Threads, k \in Keys :
        /\ th[t].pc = "idle"
        /\ ncalls < MaxKeyCalls
        /\ ncalls' = ncalls + 1
        /\ Goes(t, Thread(IF IsJson THEN "lock" ELSE "check", k, 0, nil, FALSE,
                          Ans(Empty, FALSE, nil)))
        /\ UNCHANGED <<src, mutex>>
        /\ UNCHANGED lookupVars

\* json_file.go line 25: l.mutex.Lock().
Lock ==
    \E t \in Threads :
        /\ th[t].pc = "lock"
        /\ mutex = 0
        /\ mutex' = t
        /\ Goes(t, [th[t] EXCEPT !.pc = "check"])
        /\ UNCHANGED <<src, ncalls>>
        /\ UNCHANGED lookupVars

\* json_file.go line 26, args.go line 54: if l.data == nil.
Check ==
    \E t \in Threads :
        /\ th[t].pc = "check"
        /\ Goes(t, [th[t] EXCEPT !.pc = CASE src.data = "nil" -> "make"
                                          [] src.data # "nil" /\ IsJson -> "unlock"
                                          [] OTHER -> "read"])
        /\ UNCHANGED <<src, mutex, ncalls>>
        /\ UNCHANGED lookupVars

\* json_file.go line 28, args.go line 55: l.data = make(...).
Make ==
    \E t \in Threads :
        /\ th[t].pc = "make"
        /\ src' = [src EXCEPT !.data = "map", !.tbl = NoEntries,
                              !.loads = IF IsJson THEN src.loads ELSE src.loads + 1]
        /\ Goes(t, [th[t] EXCEPT !.n = 1,
                                 !.pc = CASE src.kind = "jsonFile" -> "open"
                                          [] src.kind = "jsonRequest" -> "decode"
                                          [] OTHER -> IF src.args = <<>> THEN "read" ELSE "loop"])
        /\ UNCHANGED <<mutex, ncalls>>
        /\ UNCHANGED lookupVars

\* json_file.go lines 30-31: os.Open(l.filename).
Open ==
    \E t \in Threads :
        /\ th[t].pc = "open"
        /\ src' = [src EXCEPT !.loads = src.loads + 1]
        /\ Goes(t, IF src.content = "missing"
                   THEN [th[t] EXCEPT !.pc = "fail", !.err = openError]
                   ELSE [th[t] EXCEPT !.pc = "decode"])
        /\ UNCHANGED <<mutex, ncalls>>
        /\ UNCHANGED lookupVars

\* json_file.go lines 36-38 and 81-83: Decode(&l.data) and Close.
Decode ==
    \E t \in Threads :
        /\ th[t].pc = "decode"
        /\ src' = [src EXCEPT !.data = jsonLoad(src).data, !.tbl = jsonLoad(src).tbl,
                              !.loads = IF src.kind = "jsonRequest" THEN src.loads + 1
                                        ELSE src.loads]
        /\ Goes(t, IF jsonLoad(src).err # nil
                   THEN [th[t] EXCEPT !.pc = "fail", !.err = jsonLoad(src).err]
                   ELSE [th[t] EXCEPT !.pc = "unlock"])
        /\ UNCHANGED <<mutex, ncalls>>
        /\ UNCHANGED lookupVars

\* json_file.go lines 32-33, 39-40, 84-85: l.mutex.Unlock(); return "", false, err.
Fail ==
    \E t \in Threads :
        /\ th[t].pc = "fail"
        /\ mutex' = 0
        /\ Returns(t, Ans(Empty, FALSE, th[t].err))
        /\ UNCHANGED <<src, ncalls>>
        /\ UNCHANGED lookupVars

\* json_file.go lines 43 and 88: l.mutex.Unlock().
Unlock ==
    \E t \in Threads :
        /\ th[t].pc = "unlock"
        /\ mutex' = 0
        /\ Goes(t, [th[t] EXCEPT !.pc = "read"])
        /\ UNCHANGED <<src, ncalls>>
        /\ UNCHANGED lookupVars

\* args.go lines 57-59 and the operand reads of lines 60 and 70: the
\* argument is matched; a thread whose argument does not match has read
\* l.extraArgs for its append, one whose argument matches has read l.data
\* and entered the map assignment.  Nothing guards any of this: the steps
\* of the threads interleave.
ArgStep ==
    \E t \in Threads :
        /\ th[t].pc = "loop"
        /\ Goes(t, IF Len(FindStringSubmatch(src.prefix, src.args[th[t].n])) < 4
                   THEN [th[t] EXCEPT !.pc = "append", !.seen = src.extra]
                   ELSE [th[t] EXCEPT !.pc = "store", !.m = src.loads])
        /\ UNCHANGED <<src, mutex, ncalls>>
        /\ UNCHANGED lookupVars

\* args.go lines 60-62: l.extraArgs = append(...) stores the slice built
\* from the one the thread read; an append another thread stored in
\* between is lost.
ArgAppend ==
    \E t \in Threads :
        /\ th[t].pc = "append"
        /\ src' = argStep([src EXCEPT !.extra = th[t].seen], <<>>, src.args[th[t].n])
        /\ Goes(t, [th[t] EXCEPT !.n = th[t].n + 1, !.seen = <<>>,
                                 !.pc = IF th[t].n = Len(src.args) THEN "read" ELSE "loop"])
        /\ UNCHANGED <<mutex, ncalls>>
        /\ UNCHANGED lookupVars

\* args.go lines 64-70: l.data[res[1]] = val.  The store goes into the map
\* the thread read; when another thread has made a new map since, that is
\* no longer l.data and the entry is lost.
ArgStore ==
    \E t \in Threads :
        /\ th[t].pc = "store"
        /\ src' = IF th[t].m = src.loads
                  THEN argStep(src, FindStringSubmatch(src.prefix, src.args[th[t].n]),
                               src.args[th[t].n])
                  ELSE src
        /\ Goes(t, [th[t] EXCEPT !.n = th[t].n + 1, !.m = 0,
                                 !.pc = IF th[t].n = Len(src.args) THEN "read" ELSE "loop"])
        /\ UNCHANGED <<mutex, ncalls>>
        /\ UNCHANGED lookupVars

\* Thread t is about to enter an access of the map l.data (the assignment
\* of line 70 or the read of line 73) while thread u is inside an
\* assignment to the same map.
MapRace(t, u) ==
    /\ t # u
    /\ src.kind = "Args"
    /\ th[u].pc = "store"
    /\ th[u].m = src.loads
    /\ \/ th[t].pc = "read"
       \/ /\ th[t].pc = "loop"
          /\ Len(FindStringSubmatch(src.prefix, src.args[th[t].n])) = 4

\* The program after the runtime's fatal error: no call returns.
Dead == [t \in Threads |-> [Idle EXCEPT !.pc = "fatal"]]

\* args.go lines 70 and 73 under a data race on the map: one outcome is
\* the runtime's "fatal error: concurrent map writes" or "concurrent map
\* read and map write", which stops the program; the other outcomes are
\* the steps of the threads taken as if nothing was wrong.
MapFault ==
    /\ \E t, u \in Threads : MapRace(t, u)
    /\ th' = Dead
    /\ UNCHANGED <<src, mutex, ncalls>>
    /\ UNCHANGED lookupVars

\* json_file.go lines 45-49, args.go line 73: the value of l.data for the key.
Read ==
    \E t \in Threads :
        /\ th[t].pc = "read"
        /\ Returns(t, jsonRead(src, th[t].key))
        /\ UNCHANGED <<src, mutex, ncalls>>
        /\ UNCHANGED lookupVars

NextSrc ==
    \/ Call
    \/ Lock
    \/ Check
    \/ Make
    \/ Open
    \/ Decode
    \/ Fail
    \/ Unlock
    \/ ArgStep
    \/ ArgAppend
    \/ ArgStore
    \/ MapFault
    \/ Read

SpecSrc == InitSrc /\ [][NextSrc]_vars

(***************************************************************************)
(* Lookup called with the Reporters of reporter.go, after the caller has   *)
(* or has not reported an entry of its own to the same Reporter.           *)
(***************************************************************************)
sX == <<"x">>
sMinus == <<"-", " ">>
sPlus == <<"+", " ">>

Reporters ==
    <<nilReporter,
      FilterSecretsReporter(FmtReporter(sMinus), sA),
      DupReporter(<<FmtReporter(sPlus), FilterSecretsReporter(FmtReporter(sMinus), sA),
                    MapReporter>>)>>

InitRep ==
    /\ e \in Args
    /\ rec0 = [k \in 1..Len(e.fields) |-> Prior(e.fields[k].kind)]
    /\ rec = rec0
    /\ seq \in SeqsUpTo(Lookers, MaxSeq - 2)
    /\ pc = "call"
    /\ i = 0
    /\ trace = <<>>
    /\ got = NoGot
    /\ ret = NotReturned
    /\ prev = NoPrev
    /\ \E n \in 1..Len(Reporters) : rep = Rep(Reporters[n], NoWritten)
    /\ NoThreads

\* The caller reports an entry to the Reporter before it calls Lookup.
ReportCall ==
    /\ pc = "call"
    /\ trace = <<>>
    /\ rep.r.kind # "nil"
    /\ \E key \in {sA, sB},
          v \in {NilV, StrV(Empty), StrV(sX), ComplexV("complex128", 3, 4), BytesV(<<77, 255>>)} :
          /\ trace' = <<DidEv(0, key, Did("report", v))>>
          /\ rep' = Rep(rep.r, Report(rep.r, rep, key, v))
    /\ UNCHANGED <<e, rec, rec0, seq, pc, i, got, ret, prev>>
    /\ UNCHANGED sourceVars

NextRep ==
    \/ BadPointer
    \/ Enter
    \/ SkipField
    \/ LookupFailed
    \/ SetFieldOk
    \/ SetFieldFailed
    \/ MissingRequired
    \/ MissingOptional
    \/ Return
    \/ ReportCall

SpecRep == InitRep /\ [][NextRep]_vars

(***************************************************************************)
(* Lookup on structs of one field, of every type setField tells apart,     *)
(* with one Map that has a raw value for the field, or with Lookers that   *)
(* have none.                                                              *)
(***************************************************************************)
MaxBytes == 2

FieldKinds == {"bool", "int8", "int64", "string", "complex64", "complex128", "[]byte"}

ArgsSet ==
    {[kind |-> "ptr", fields |-> <<Decl("F", kind, tag)>>] :
        kind \in FieldKinds, tag \in {"lookup" :> sA, "lookup" :> WithMarker(sA, sOptional)}}
    \cup {[kind |-> "ptr", fields |-> <<Decl("U", "string", NoTag)>>]}
    \cup {[kind |-> k, fields |-> <<Decl("F", "bool", "lookup" :> sA)>>] : k \in {"nil", "struct"}}

Bytes == {0, 77, 255}
ByteSeqs == SeqsUpTo(Bytes, MaxBytes)

\* base64.RawStdEncoding.EncodeToString(b[p..]): what a caller writes for
\* the bytes b.
RECURSIVE EncodeToString(_, _)
EncodeToString(b, p) ==
    CASE Len(b) - p + 1 >= 3 ->
            <<encodeStd[(b[p] \div 4) + 1],
              encodeStd[((b[p] % 4) * 16 + b[p + 1] \div 16) + 1],
              encodeStd[((b[p + 1] % 16) * 4 + b[p + 2] \div 64) + 1],
              encodeStd[(b[p + 2] % 64) + 1]>> \o EncodeToString(b, p + 3)
      [] Len(b) - p + 1 = 2 ->
            <<encodeStd[(b[p] \div 4) + 1],
              encodeStd[((b[p] % 4) * 16 + b[p + 1] \div 16) + 1],
              encodeStd[((b[p + 1] % 16) * 4) + 1]>>
      [] Len(b) - p + 1 = 1 ->
            <<encodeStd[(b[p] \div 4) + 1], encodeStd[((b[p] % 4) * 16) + 1]>>
      [] OTHER -> <<>>

Raws ==
    {<<"3", ",", "4">>, <<"3">>, <<"3", "+", "4", "i">>, <<"4", ".", "9">>, <<"n", "o">>,
     <<"T", "Q", "=", "=">>, <<"T", "Q", NL>>, <<"\f", "1">>, Empty}

RawLookers ==
    {Looker("Map", sA :> Found(raw), Ans(Empty, FALSE, nil)) :
        raw \in Raws \cup {EncodeToString(b, 1) : b \in ByteSeqs}}

OtherLookers ==
    {Looker("Looker", NoEntries, Ans(<<"1">>, TRUE, "failed")),
     Looker("Map", NoEntries, Ans(Empty, FALSE, nil)),
     Looker("Map", sA :> Found(<<"1">>), Ans(Empty, FALSE, nil)),
     NewArgs(prefix, <<Arg(<<"A", "=", "0">>), <<"x">>, Arg(<<"A", "=", "1">>), Arg(sB)>>),
     NewArgs(prefix, <<Arg(<<"A", "=", "3">>), Arg(sB), Arg(sA)>>)}

InitSet ==
    /\ e \in ArgsSet
    /\ rec0 = [k \in 1..Len(e.fields) |-> Prior(e.fields[k].kind)]
    /\ rec = rec0
    /\ seq \in {<<l>> : l \in RawLookers} \cup SeqsUpTo(OtherLookers, MaxSeq - 1)
    /\ pc = "call"
    /\ i = 0
    /\ trace = <<>>
    /\ got = NoGot
    /\ ret = NotReturned
    /\ prev = NoPrev
    /\ rep = NoReporter
    /\ NoThreads

SpecSet == InitSet /\ [][Next]_vars

(***************************************************************************)
(* Lookup on structs of one bool field whose tag varies: every way the     *)
(* two tag systems, their markers and the positions of the markers         *)
(* combine.                                                                *)
(***************************************************************************)
Tags ==
    {"lookup" :> WithMarker(sA, sOptional),
     "lookup" :> sA,
     "lookup" :> WithMarker(sA, sOmitempty),
     "lookup" :> WithMarker(WithMarker(sA, sX), sOptional),
     "lookup" :> WithMarker(WithMarker(sA, sOptional), sX),
     "lookup" :> WithMarker(sA, Empty),
     "lookup" :> WithMarker(Empty, sOptional),
     "lookup" :> Empty,
     "json" :> WithMarker(sA, sOmitempty),
     "json" :> WithMarker(sA, sOptional),
     "json" :> WithMarker(WithMarker(sA, sX), sOmitempty),
     ("json" :> WithMarker(sA, sOptional)) @@ ("lookup" :> WithMarker(sA, sOptional)),
     ("json" :> Empty) @@ ("lookup" :> WithMarker(sA, sOptional)),
     ("json" :> WithMarker(Empty, sOmitempty)) @@ ("lookup" :> sA),
     "xml" :> sA,
     NoTag}

ArgsTag ==
    {[kind |-> "ptr", fields |-> <<Decl("A", "bool", tag)>>] : tag \in Tags}
    \cup {[kind |-> k, fields |-> <<Decl("A", "bool", "lookup" :> sA)>>] : k \in {"nil", "struct"}}

InitTag ==
    /\ e \in ArgsTag
    /\ rec0 = [k \in 1..Len(e.fields) |-> Prior(e.fields[k].kind)]
    /\ rec = rec0
    /\ seq \in SeqsUpTo(Lookers, MaxSeq)
    /\ pc = "call"
    /\ i = 0
    /\ trace = <<>>
    /\ got = NoGot
    /\ ret = NotReturned
    /\ prev = NoPrev
    /\ rep = NoReporter
    /\ NoThreads

SpecTag == InitTag /\ [][Next]_vars

(***************************************************************************)
(* Views of a state.                                                       *)
(***************************************************************************)
\* The answer found = true with a nil error, which ends lookupKey's loop.
Hit(a) == a.b /\ a.err = nil

\* The Lookers of seq that have key.
Hits(key) == {j \in 1..Len(seq) : Hit(LookupKey(seq[j], key))}
FirstHit(key) == CHOOSE j \in Hits(key) : \A k \in Hits(key) : j <= k

\* The Looker calls made for field f, in order.
CallsOf(f) == SelectSeq(trace, LAMBDA ev : ev.op = "call" /\ ev.field = f)

\* The Reporter calls, in order.
Reports(tr) == SelectSeq(tr, LAMBDA ev : ev.op = "report")

\* Looker j was asked as call number j, for key, and answered as its content says.
AskedInOrder(cs, key) ==
    \A j \in 1..Len(cs) :
        /\ cs[j].src = j
        /\ cs[j].key = key
        /\ Ans(cs[j].val.s, cs[j].b, cs[j].err) = LookupKey(seq[j], key)

GotAns == Ans(got.v, got.b, got.err)

(***************************************************************************)
(* Properties.                                                             *)
(***************************************************************************)
\* C1: lookupKey asks the Lookers in list order and returns the answer of
\* the first one that answers found = true with a nil error; no Looker after
\* that one is asked for the key.
C1_FirstHitWins ==
    (got.field # 0 /\ Hits(got.key) # {}) =>
        /\ Len(CallsOf(got.field)) = FirstHit(got.key)
        /\ AskedInOrder(CallsOf(got.field), got.key)
        /\ GotAns = LookupKey(seq[FirstHit(got.key)], got.key)

\* With three Lookers, the first lacks the key, the second has it, the third
\* is not asked.
C1_Witness ==
    /\ got.field # 0
    /\ Len(seq) = 3
    /\ LookupKey(seq[1], got.key) = Ans(Empty, FALSE, nil)
    /\ Hit(LookupKey(seq[2], got.key))
    /\ Len(CallsOf(got.field)) = 2
    /\ got.b
    /\ got.v # Empty

\* C2: when no Looker answers found = true with a nil error, lookupKey
\* returns the very answer of the last Looker, whatever the earlier ones
\* answered; with no Looker at all it returns ("", false, nil).
C2_LastAnswerReturned ==
    (got.field # 0 /\ Hits(got.key) = {}) =>
        /\ Len(CallsOf(got.field)) = Len(seq)
        /\ AskedInOrder(CallsOf(got.field), got.key)
        /\ GotAns = IF Len(seq) = 0 THEN Ans(Empty, FALSE, nil)
                    ELSE LookupKey(seq[Len(seq)], got.key)

\* No Looker has the key, an earlier Looker failed, the last one answers
\* with a value, found = false and no error, and that answer is returned.
C2_Witness ==
    /\ got.field # 0
    /\ Len(seq) >= 2
    /\ Hits(got.key) = {}
    /\ LookupKey(seq[1], got.key).err # nil
    /\ GotAns = LookupKey(seq[Len(seq)], got.key)
    /\ got.v # Empty
    /\ got.err = nil

\* What findTag makes of field f.
KeyOf(f) == findTag(e.fields[f].tag).key
OptionalField(f) == findTag(e.fields[f].tag).optional
IsTagged(f) == KeyOf(f) # notFound

\* The entries of the trace that belong to a field among fs.
EventsOf(tr, fs) == SelectSeq(tr, LAMBDA ev : ev.field \in fs)

LookupFailedKind == "lookup for for field %q failed: %s"
NotTypeKind == "value %q for field %q is not %T: %s"
MissingKind == "missing value for required field %q"

\* The Lookers with every failure of a Looker that is not the last one
\* replaced by the answer ("", false, nil), on the keys of the struct.
Absorbed(l, keys) ==
    [j \in 1..Len(l) |->
        IF j = Len(l) THEN l[j]
        ELSE Looker("Looker",
                    [k \in keys |-> IF LookupKey(l[j], k).err # nil
                                    THEN Ans(Empty, FALSE, nil)
                                    ELSE LookupKey(l[j], k)],
                    Ans(Empty, FALSE, nil))]

AllKeys == {KeyOf(f) : f \in 1..Len(e.fields)}

\* C3: a failure of a Looker that is not the last never reaches the caller.
\* Lookup returns its "lookup failed" error for a field exactly when no
\* Looker has the field's key and the last Looker failed; and putting
\* ("", false, nil) in place of the failures of the Lookers before the last
\* changes neither the returned error, nor the struct, nor the reports.
C3_OnlyLastFailureSurfaces ==
    /\ got.field # 0 =>
          ((pc = "done" /\ ret.kind = LookupFailedKind /\ ret.field = e.fields[got.field].name)
           <=> (/\ Hits(got.key) = {}
                /\ Len(seq) > 0
                /\ LookupKey(seq[Len(seq)], got.key).err # nil))
    /\ (pc = "done" /\ e.kind = "ptr") =>
          /\ LookupFn(e, rec0, Absorbed(seq, AllKeys)).ret = ret
          /\ LookupFn(e, rec0, Absorbed(seq, AllKeys)).rec = rec
          /\ Reports(LookupFn(e, rec0, Absorbed(seq, AllKeys)).trace) = Reports(trace)

\* Lookup has returned nil although a Looker before the last one failed for
\* the key of a field, and that field was loaded from a later Looker.
C3_Witness ==
    /\ pc = "done"
    /\ ret = NilErr
    /\ \E k \in 1..Len(trace) :
          /\ trace[k].op = "call"
          /\ trace[k].err # nil
          /\ trace[k].src < Len(seq)
          /\ \E m \in 1..Len(trace) : trace[m].op = "set" /\ trace[m].field = trace[k].field

\* C4: for an optional field that no Looker supplies (found = false, nil
\* error) Lookup does not fail, the field keeps its value, and the Reporter
\* receives exactly one entry (key, "") for it.
C4_MissingOptionalReportsEmpty ==
    (got.field # 0 /\ ~got.b /\ got.err = nil /\ OptionalField(got.field)) =>
        /\ ret \in {NotReturned, NilErr}
        /\ rec[got.field] = rec0[got.field]
        /\ Len(EventsOf(Reports(trace), {got.field})) = 1
        /\ EventsOf(Reports(trace), {got.field})[1].key = got.key
        /\ EventsOf(Reports(trace), {got.field})[1].val = StrV(Empty)

\* C5: for a required field that no Looker supplies (found = false, nil
\* error) Lookup returns the "missing value for required field" error naming
\* the field, reports nothing for it, and asks no Looker and reports nothing
\* for any field declared after it.
C5_MissingRequiredAborts ==
    (got.field # 0 /\ ~got.b /\ got.err = nil /\ ~OptionalField(got.field)) =>
        /\ pc = "done"
        /\ i = got.field
        /\ ret = Err(MissingKind, e.fields[got.field].name, Empty, "", nil)
        /\ EventsOf(Reports(trace), {got.field}) = <<>>
        /\ EventsOf(trace, (got.field + 1)..Len(e.fields)) = <<>>

\* A required field that two or more Lookers were asked for is missing while
\* a tagged field is declared after it.
C5_Witness ==
    /\ pc = "done"
    /\ ret.kind = MissingKind
    /\ got.field = i
    /\ i < Len(e.fields)
    /\ \E f \in (i + 1)..Len(e.fields) : IsTagged(f)
    /\ Len(CallsOf(i)) >= 2

\* The fields whose pass through the loop body ended without an error.
Passed == IF pc = "call" THEN {} ELSE {f \in 1..Len(e.fields) : f < i}
Loaded == {f \in Passed : IsTagged(f)}

\* C6: the Reporter calls of one Lookup call are, in declaration order and
\* once each, the tagged fields that were set or were missing and optional;
\* skipped fields and the failing field contribute no call.
C6_OneReportPerLoadedField ==
    /\ Len(Reports(trace)) = Cardinality(Loaded)
    /\ \A k \in 1..Len(Reports(trace)) :
          /\ Reports(trace)[k].field \in Loaded
          /\ Reports(trace)[k].key = KeyOf(Reports(trace)[k].field)
          /\ k < Len(Reports(trace)) => Reports(trace)[k].field < Reports(trace)[k + 1].field

\* Lookup returned nil for a struct of three fields, one of them skipped:
\* the two others were set and reported, in their order.
C6_Witness ==
    /\ pc = "done"
    /\ ret = NilErr
    /\ Len(e.fields) = 3
    /\ \E f \in 1..3 : ~IsTagged(f)
    /\ Len(Reports(trace)) = 2
    /\ Reports(trace)[1].field < Reports(trace)[2].field
    /\ \E k \in 1..Len(trace) : trace[k].op = "set"

\* Field f was found: some Looker answered found = true with a nil error.
WasFound(f) == \E k \in 1..Len(trace) :
                  trace[k].op = "call" /\ trace[k].field = f /\ trace[k].b /\ trace[k].err = nil

\* C7: for a field that is coerced, the Reporter is called after the field
\* was assigned, and with the field's new, converted value, not with the
\* raw string that was looked up.
C7_ReportAfterSetOfConvertedValue ==
    \A k \in 1..Len(trace) :
        (trace[k].op = "report" /\ WasFound(trace[k].field)) =>
            /\ k > 1
            /\ trace[k - 1].op = "set"
            /\ trace[k - 1].field = trace[k].field
            /\ trace[k - 1].val = trace[k].val
            /\ trace[k].val = rec[trace[k].field]
            /\ trace[k].val.kind = e.fields[trace[k].field].kind

\* The raw value "f" of a bool field that held true was reported as false.
C7_Witness ==
    \E k \in 1..Len(trace) :
        /\ trace[k].op = "report"
        /\ trace[k].val = BoolV(FALSE)
        /\ rec0[trace[k].field] = BoolV(TRUE)
        /\ got.field = trace[k].field
        /\ got.v = <<"f">>

\* C8: when Lookup aborts at field i, the fields before i hold what they
\* obtained in this pass and their entries were reported (as in a Lookup of
\* the struct made of those fields only), and the fields after i hold their
\* value from before the call, were not looked up and were not reported.
C8_AbortKeepsEarlierLeavesLater ==
    (pc = "done" /\ e.kind = "ptr" /\ ret # NilErr) =>
        /\ LookupFn([kind |-> "ptr", fields |-> SubSeq(e.fields, 1, i - 1)],
                    SubSeq(rec0, 1, i - 1), seq)
             = [rec |-> SubSeq(rec, 1, i - 1),
                trace |-> EventsOf(trace, 1..(i - 1)),
                ret |-> NilErr]
        /\ \A f \in (i + 1)..Len(e.fields) : rec[f] = rec0[f]
        /\ EventsOf(trace, (i + 1)..Len(e.fields)) = <<>>

\* Lookup aborted at the second of three fields; the first was set to a new
\* value and reported, the third is tagged.
C8_Witness ==
    /\ pc = "done"
    /\ ret # NilErr
    /\ i = 2
    /\ Len(e.fields) = 3
    /\ rec[1] # rec0[1]
    /\ Len(Reports(trace)) = 1
    /\ IsTagged(3)

\* C9: when a Looker supplies a value (found = true, nil error) that
\* setField cannot convert to the field's type, Lookup returns the error
\* that names the field and the raw value, and the Reporter is not called
\* for the field; "4.9" for an integer field and a word that is no boolean
\* for a bool field are such values.
C9_CoercionFailureIsAttributed ==
    (got.field # 0 /\ Hit(GotAns)) =>
        /\ ((e.fields[got.field].kind \in {"int", "int8", "int64"} /\ got.v = <<"4", ".", "9">>)
            \/ (e.fields[got.field].kind = "bool" /\ got.v = <<"n", "o">>))
           => ret.kind = NotTypeKind
        /\ setField(e.fields[got.field].kind, got.v, got.key, e.fields[got.field].name).err # nil
           => /\ pc = "done"
              /\ ret.kind = NotTypeKind
              /\ ret.field = e.fields[got.field].name
              /\ ret.value = got.v
              /\ ret.type = e.fields[got.field].kind
              /\ EventsOf(Reports(trace), {got.field}) = <<>>

\* "4.9" was found for an int64 field.
C9_Witness ==
    /\ got.field # 0
    /\ Hit(GotAns)
    /\ got.v = <<"4", ".", "9">>
    /\ e.fields[got.field].kind = "int64"
    /\ ret.kind = NotTypeKind
    /\ ret.value = <<"4", ".", "9">>

\* The struct type with the lookup tag taken off every field that has a
\* non-empty json tag and a non-empty lookup tag.
HasBoth(tag) ==
    /\ DOMAIN tag = {"json", "lookup"}
    /\ tag["json"] # Empty
    /\ tag["lookup"] # Empty
JsonOnly(fields) ==
    [f \in 1..Len(fields) |->
        IF HasBoth(fields[f].tag)
        THEN [fields[f] EXCEPT !.tag = "json" :> fields[f].tag["json"]]
        ELSE fields[f]]

\* C10: for a field with a non-empty json tag and a non-empty lookup tag,
\* key and optionality come from the json tag alone: Lookup does what it
\* does on the same struct without those lookup tags.
C10_JsonTagWins ==
    /\ \A f \in 1..Len(e.fields) :
          HasBoth(e.fields[f].tag) =>
              /\ KeyOf(f) = Split(e.fields[f].tag["json"])[1]
              /\ OptionalField(f) = (/\ Len(Split(e.fields[f].tag["json"])) >= 2
                                     /\ Split(e.fields[f].tag["json"])[2] = sOmitempty)
    /\ (pc = "done" /\ e.kind = "ptr") =>
          LookupFn([kind |-> "ptr", fields |-> JsonOnly(e.fields)], rec0, seq)
            = [rec |-> rec, trace |-> trace, ret |-> ret]

\* A field tagged json:"C" lookup:"A,optional" was looked up under "C" and,
\* missing, made Lookup fail although the lookup tag marks it optional.
C10_Witness ==
    /\ pc = "done"
    /\ ret.kind = MissingKind
    /\ HasBoth(e.fields[i].tag)
    /\ got.key = sC
    /\ Split(e.fields[i].tag["lookup"])[1] = sA
    /\ Split(e.fields[i].tag["lookup"])[2] = sOptional

\* The tag system whose tag decides for a field: json when the field has a
\* non-empty json tag, else lookup when it has a non-empty lookup tag.
Present(tag, name) == name \in DOMAIN tag /\ tag[name] # Empty
Winning(tag) ==
    CASE Present(tag, "json") -> "json"
      [] ~Present(tag, "json") /\ Present(tag, "lookup") -> "lookup"
      [] OTHER -> "none"
MarkerOf(name) == IF name = "json" THEN sOmitempty ELSE sOptional

\* The second comma-separated part of the winning tag is that tag system's
\* own marker.
MarkedOptional(tag) ==
    /\ Winning(tag) # "none"
    /\ Len(Split(tag[Winning(tag)])) >= 2
    /\ Split(tag[Winning(tag)])[2] = MarkerOf(Winning(tag))

\* C11: a field is optional exactly when its winning tag has two or more
\* comma-separated parts and the second one is that tag system's own marker:
\* findTag says so, and a looked-up field without a value makes Lookup fail
\* with the missing-value error exactly when the tag is not so marked.
C11_OptionalIffOwnMarkerSecond ==
    /\ \A f \in 1..Len(e.fields) :
          Winning(e.fields[f].tag) # "none" =>
              (findTag(e.fields[f].tag).optional <=> MarkedOptional(e.fields[f].tag))
    /\ (got.field # 0 /\ ~got.b /\ got.err = nil) =>
          ((pc = "done" /\ ret.kind = MissingKind) <=> ~MarkedOptional(e.fields[got.field].tag))

\* A field tagged lookup:"A,omitempty", the marker of the other tag system,
\* had no value and made Lookup fail as a required field.
C11_Witness ==
    /\ pc = "done"
    /\ ret.kind = MissingKind
    /\ got.field = 1
    /\ DOMAIN e.fields[1].tag = {"lookup"}
    /\ Split(e.fields[1].tag["lookup"]) = <<sA, sOmitempty>>

\* The fields that have neither a json tag nor a lookup tag.
Untagged == {f \in 1..Len(e.fields) : DOMAIN e.fields[f].tag \cap {"json", "lookup"} = {}}

\* C12: for a field with neither a json tag nor a lookup tag no Looker is
\* asked, the field keeps its value, the Reporter is not called, and Lookup
\* does not end with an error at that field.
C12_UntaggedFieldUntouched ==
    \A f \in Untagged :
        /\ EventsOf(trace, {f}) = <<>>
        /\ rec[f] = rec0[f]
        /\ (pc = "done" /\ ret # NilErr) => i # f
        /\ got.field # f

\* Lookup returned after it went past an untagged field that stands between
\* two fields for which Lookers were asked.
C12_Witness ==
    /\ pc = "done"
    /\ Len(e.fields) = 3
    /\ 2 \in Untagged
    /\ i > 2
    /\ Len(seq) >= 2
    /\ CallsOf(1) # <<>>
    /\ CallsOf(3) # <<>>

\* C13: a field whose json tag or lookup tag is present and non-empty is not
\* skipped: once Lookup is past it, the field was resolved under the first
\* comma-separated part of its winning tag and reached a terminal state (it
\* was reported), also when that first part is empty as in json:",omitempty".
C13_TaggedFieldIsResolved ==
    \A f \in Passed :
        Winning(e.fields[f].tag) # "none" =>
            \E k \in 1..Len(trace) :
                /\ trace[k].op = "report"
                /\ trace[k].field = f
                /\ trace[k].key = Split(e.fields[f].tag[Winning(e.fields[f].tag)])[1]

\* C14: every answer of a NoBool Looker has found = true exactly when the
\* wrapped function F returned a nil error.
C14_NoBoolFoundIffNoError ==
    \A k \in 1..Len(trace) :
        (trace[k].op = "call" /\ seq[trace[k].src].kind = "NoBool") =>
            (trace[k].b <=> trace[k].err = nil)

PointerKind == "Lookup needs a pointer argument"

\* C15: when the argument is not a pointer, or is a nil pointer, Lookup
\* returns its pointer error and nothing else happens: no Looker is asked,
\* no field is written, the Reporter is not called.
C15_BadArgumentRejectedFirst ==
    e.kind # "ptr" =>
        /\ pc \in {"call", "done"}
        /\ trace = <<>>
        /\ rec = rec0
        /\ got = NoGot
        /\ pc = "done" => ret = Err(PointerKind, "", Empty, "", nil)

\* Lookup has returned for a nil pointer to a struct with tagged fields,
\* with Lookers that have values for them.
C15_Witness ==
    /\ pc = "done"
    /\ e.kind = "nil"
    /\ ret.kind = PointerKind
    /\ Len(seq) >= 1
    /\ \E f \in 1..Len(e.fields) : Hits(KeyOf(f)) # {}

\* C16: when a call of Lookup has succeeded, the next call on the same
\* struct with the same Looker values succeeds too, leaves every field as it
\* was and gives the Reporter the same entries in the same order.
C16_SecondCallChangesNothing ==
    (prev.n > 0 /\ prev.ret = NilErr /\ pc = "done") =>
        /\ ret = NilErr
        /\ rec = prev.rec
        /\ Reports(trace) = prev.reports

\* C17: a JSON file is opened and decoded, and a JSON request body is
\* decoded, at most once over all the calls of LookupKey on one Looker,
\* whether that load succeeded or failed.
C17_LoadedAtMostOnce == IsJson => src.loads <= 1

\* The first load of the JSON Looker failed: the file is missing or what is
\* read is no JSON document.
LoadFails == IsJson /\ src.content \in {"bad", "missing"}

\* C18: every call of LookupKey on a JSON Looker whose first load failed
\* returns a non-nil error, the first call and every later one.
C18_FailedLoadKeepsFailing ==
    LoadFails => \A t \in Threads : th[t].returned => th[t].ans.err # nil

\* A thread is about to read l.data without the mutex while another thread
\* is about to write it.
Racing ==
    \E t, u \in Threads :
        /\ t # u
        /\ th[t].pc = "read"
        /\ th[u].pc \in {"make", "decode", "loop", "append", "store"}

\* What LookupKey(k) returns when the calls run one after the other on a
\* Looker whose document is a JSON object.
Sequential(k) == IF k \in DOMAIN src.obj THEN Found(src.obj[k].v) ELSE Ans(Empty, FALSE, nil)

\* C19: whatever way the first calls of several threads on one JSON Looker
\* interleave, the document is loaded once, no thread reads l.data while
\* another writes it, and once a JSON object was loaded every thread gets
\* for a key the answer of a sequential execution.
C19_ConcurrentFirstUseLoadsOnce ==
    IsJson =>
        /\ src.loads <= 1
        /\ ~Racing
        /\ src.content = "object" =>
              \A t \in Threads : th[t].returned => th[t].ans = Sequential(th[t].key)

\* The arguments that are no "-NAME" or "-NAME=value", in their order.
NonMatching == SelectSeq(src.args, LAMBDA a : FindStringSubmatch(src.prefix, a) = <<>>)

\* C20: whatever way the calls of several threads on one ArgsLooker
\* interleave, the program goes on, the arguments are parsed once, every
\* call returns what a sequential call returns for its key, and once no
\* call is running ExtraArgs is the non-matching arguments, each once.
C20_ArgsConcurrentUseIsSafe ==
    src.kind = "Args" =>
        /\ th # Dead
        /\ src.loads <= 1
        /\ ~Racing
        /\ \A t \in Threads :
              th[t].returned =>
                  th[t].ans = ArgsLookupKey(NewArgs(src.prefix, src.args),
                                            th[t].key)
        /\ (ncalls > 0 /\ \A t \in Threads : th[t].pc = "idle") => src.extra = NonMatching

(***************************************************************************)
(* ArgsLooker: which arguments become entries.                             *)
(***************************************************************************)
HasPrefix(a, pfx) == Len(a) >= Len(pfx) /\ SubSeq(a, 1, Len(pfx)) = pfx

\* The first "=" of a after the prefix, 0 when there is none.
FirstEq(a, pfx) ==
    IF \E p \in (Len(pfx) + 1)..Len(a) : a[p] = "="
    THEN CHOOSE p \in (Len(pfx) + 1)..Len(a) :
            a[p] = "=" /\ \A q \in (Len(pfx) + 1)..(p - 1) : a[q] # "="
    ELSE 0

NameOf(a, pfx) ==
    IF FirstEq(a, pfx) = 0 THEN SubSeq(a, Len(pfx) + 1, Len(a))
    ELSE SubSeq(a, Len(pfx) + 1, FirstEq(a, pfx) - 1)

ValueOf(a, pfx) ==
    IF FirstEq(a, pfx) = 0 THEN <<"1">> ELSE SubSeq(a, FirstEq(a, pfx) + 1, Len(a))

\* The ArgsLookers among the Lookers of the call that have processed their
\* arguments.
Processed == {j \in 1..Len(seq) : seq[j].kind = "Args" /\ seq[j].data = "map"}

\* C21: once an ArgsLooker has processed its arguments, every argument that
\* starts with the prefix is an entry (key: the text between the prefix and
\* the first "=", value: the text after that "=", "1" without "="; the last
\* argument of a key wins), every other argument is in ExtraArgs, in the
\* original order, and no argument is both; with an empty prefix ExtraArgs
\* is empty.
C21_EveryArgumentClassified ==
    \A j \in Processed :
        LET l == seq[j]
            named == {n \in 1..Len(l.args) : HasPrefix(l.args[n], l.prefix)}
        IN  /\ DOMAIN l.tbl = {NameOf(l.args[n], l.prefix) : n \in named}
            /\ \A n \in named :
                  (\A m \in named : m > n =>
                        NameOf(l.args[m], l.prefix) # NameOf(l.args[n], l.prefix))
                  => l.tbl[NameOf(l.args[n], l.prefix)] = Found(ValueOf(l.args[n], l.prefix))
            /\ l.extra = SelectSeq(l.args, LAMBDA a : ~HasPrefix(a, l.prefix))
            /\ (l.prefix = Empty => l.extra = <<>>)

\* The calls of LookupKey made so far on Looker j.
CallsTo(j) == SelectSeq(trace, LAMBDA ev : ev.op = "call" /\ ev.src = j)

\* C22: an ArgsLooker that has not been asked yet has no ExtraArgs and no
\* entries; the first call of LookupKey fills both from all the arguments,
\* and no later call changes either of them.
C22_ArgsProcessedOnFirstCallOnly ==
    /\ [](\A j \in 1..Len(seq) :
            seq[j].kind = "Args" /\ seq[j].data = "nil" =>
                seq[j].extra = <<>> /\ seq[j].tbl = NoEntries /\ seq[j].loads = 0)
    /\ [][\A j \in 1..Len(seq) :
            seq[j].kind = "Args" =>
                /\ seq[j].data = "map" =>
                      /\ seq'[j].tbl = seq[j].tbl
                      /\ seq'[j].extra = seq[j].extra
                      /\ seq'[j].data = "map"
                /\ (seq[j].data = "nil" /\ seq'[j] # seq[j]) =>
                      /\ seq'[j].data = "map"
                      /\ Len(seq'[j].extra) + Cardinality(DOMAIN seq'[j].tbl)
                            <= Len(seq[j].args)
                      /\ \A n \in 1..Len(seq[j].args) :
                            \/ \E m \in 1..Len(seq'[j].extra) :
                                  seq'[j].extra[m] = seq[j].args[n]
                            \/ NameOf(seq[j].args[n], seq[j].prefix) \in DOMAIN seq'[j].tbl]_vars

\* An ArgsLooker with extra arguments and entries was asked in both calls
\* of Lookup, more than once in the second.
C22_Witness ==
    /\ prev.n = 1
    /\ \E j \in Processed :
          /\ seq[j].extra # <<>>
          /\ seq[j].tbl # NoEntries
          /\ seq[j].loads = 1
          /\ Len(CallsTo(j)) >= 2

(***************************************************************************)
(* The form source.                                                        *)
(***************************************************************************)
\* The values the form of Looker l holds for key k, in order.
FormValues(l, k) ==
    LET with == SelectSeq(l.args, LAMBDA a : NameOf(a, Empty) = k)
    IN  [n \in 1..Len(with) |->
            IF FirstEq(with[n], Empty) = 0 THEN Empty
            ELSE SubSeq(with[n], FirstEq(with[n], Empty) + 1, Len(with[n]))]

\* The calls of LookupKey on form sources that returned no error.
FormCalls ==
    {k \in 1..Len(trace) :
        trace[k].op = "call" /\ seq[trace[k].src].kind = "Form" /\ trace[k].err = nil}

\* C23: a form source answers a key of the parsed form with found = true and
\* the first non-empty value of the key, "1" when all its values are empty,
\* and a key that is not in the form with ("", false, nil); a form that
\* parses without error never makes LookupKey fail.
C23_FormFirstNonEmptyValue ==
    /\ \A k \in FormCalls :
          LET vals == FormValues(seq[trace[k].src], trace[k].key)
          IN  IF vals = <<>>
              THEN trace[k].val = StrV(Empty) /\ ~trace[k].b
              ELSE /\ trace[k].b
                   /\ \/ \E n \in 1..Len(vals) :
                            /\ vals[n] # Empty
                            /\ \A m \in 1..(n - 1) : vals[m] = Empty
                            /\ trace[k].val = StrV(vals[n])
                      \/ /\ \A n \in 1..Len(vals) : vals[n] = Empty
                         /\ trace[k].val = StrV(<<"1">>)
    /\ \A k \in 1..Len(trace) :
          (trace[k].op = "call" /\ seq[trace[k].src].kind = "Form"
              /\ seq[trace[k].src].content = "ok") => trace[k].err = nil

\* One call of Lookup asked a form for a key whose first value is empty and
\* whose second is not, for a key whose values are all empty, and for a key
\* that the form does not have.
C23_Witness ==
    /\ \E k \in FormCalls :
          LET vals == FormValues(seq[trace[k].src], trace[k].key)
          IN  Len(vals) >= 3 /\ vals[1] = Empty /\ trace[k].val = StrV(vals[2])
    /\ \E k \in FormCalls :
          LET vals == FormValues(seq[trace[k].src], trace[k].key)
          IN  vals = <<Empty>> /\ trace[k].val = StrV(<<"1">>)
    /\ \E k \in FormCalls : ~trace[k].b

(***************************************************************************)
(* The Reporters.                                                          *)
(***************************************************************************)
\* The text of the lines, one after the other.
RECURSIVE Joined(_, _)
Joined(lines, n) == IF n > Len(lines) THEN Empty ELSE lines[n] \o Joined(lines, n + 1)

\* What FmtReporter writes for one entry.
Line(Prefix, key, text) == Prefix \o key \o <<"=">> \o text \o <<NL>>

\* What a FilterSecretsReporter with pattern .*A.* hands on for an entry,
\* with the value's string form for a key that does not match.
StringFormForwarded(ev) ==
    IF \E p \in 1..Len(ev.key) : ev.key[p] = "A"
    THEN IF ev.val = NilV \/ Sprint(ev.val) = Empty THEN sEmptyMark ELSE sNotEmptyMark
    ELSE Sprint(ev.val)

\* The same, with the empty string for a nil value whose key does not match.
Forwarded(ev) ==
    IF \E p \in 1..Len(ev.key) : ev.key[p] = "A"
    THEN IF ev.val = NilV \/ Sprint(ev.val) = Empty THEN sEmptyMark ELSE sNotEmptyMark
    ELSE IF ev.val = NilV THEN Empty ELSE Sprint(ev.val)

FilterOnly == rep.r = Reporters[2]
DupOfThree == rep.r = Reporters[3]

\* C24 as stated: the FmtReporter wrapped by a FilterSecretsReporter gets one
\* call for every call the filter gets, in order, with the same key and with
\* "(empty)" or "(not empty)" for a key that matches, the string form of the
\* value for a key that does not.
C24_FilterForwardsStringForm ==
    FilterOnly =>
        rep.buf = Joined([k \in 1..Len(Reports(trace)) |->
                            Line(sMinus, Reports(trace)[k].key,
                                 StringFormForwarded(Reports(trace)[k]))], 1)

\* C24, amended: the same, except that a nil value whose key does not match
\* is forwarded as the empty string.
C24_FilterForwardsNilAsEmpty ==
    FilterOnly =>
        rep.buf = Joined([k \in 1..Len(Reports(trace)) |->
                            Line(sMinus, Reports(trace)[k].key,
                                 Forwarded(Reports(trace)[k]))], 1)

\* The filter got a nil value for a key that does not match, then from
\* Lookup the empty value of a missing optional field and a value that was
\* found, both for keys that match, or a value whose key does not match.
C24_Witness ==
    /\ FilterOnly
    /\ pc = "done"
    /\ Len(Reports(trace)) >= 3
    /\ Reports(trace)[1].val = NilV
    /\ Reports(trace)[1].key = sB
    /\ \E k \in 2..Len(Reports(trace)) :
          Reports(trace)[k].key = sA /\ Reports(trace)[k].val = StrV(Empty)
    /\ \E k \in 2..Len(Reports(trace)) :
          Reports(trace)[k].key # sA /\ Sprint(Reports(trace)[k].val) # Empty

\* The last entry reported for key.
LastReport(key) ==
    Reports(trace)[CHOOSE k \in 1..Len(Reports(trace)) :
                      /\ Reports(trace)[k].key = key
                      /\ \A m \in (k + 1)..Len(Reports(trace)) : Reports(trace)[m].key # key]

\* C25: a DupReporter of a FmtReporter, a FilterSecretsReporter around a
\* FmtReporter and a MapReporter hands every entry to the three in that
\* order, with the key and the value it got: the first writes the value, the
\* filter's FmtReporter writes what the filter forwards, and the Map ends up
\* with the string form, not redacted, of the last value of every key.
C25_DupForwardsToEveryItem ==
    DupOfThree =>
        /\ rep.buf = Joined([k \in 1..Len(Reports(trace)) |->
                               Line(sPlus, Reports(trace)[k].key, Sprint(Reports(trace)[k].val))
                               \o Line(sMinus, Reports(trace)[k].key,
                                       Forwarded(Reports(trace)[k]))], 1)
        /\ DOMAIN rep.dest = {Reports(trace)[k].key : k \in 1..Len(Reports(trace))}
        /\ \A key \in DOMAIN rep.dest : rep.dest[key] = Sprint(LastReport(key).val)

\* The caller has reported a value under a protected key, and Lookup has
\* then reported the empty value of a missing optional field under that key
\* and a value under another key.
C25_Witness ==
    /\ DupOfThree
    /\ pc = "done"
    /\ Len(Reports(trace)) >= 2
    /\ Reports(trace)[1].field = 0
    /\ Reports(trace)[1].key = sA
    /\ Reports(trace)[1].val = StrV(sX)
    /\ \E k \in 2..Len(Reports(trace)) :
          /\ Reports(trace)[k].field > 0
          /\ Reports(trace)[k].key = sA
          /\ Reports(trace)[k].val = StrV(Empty)
    /\ rep.dest[sA] = Empty
    /\ \E key \in DOMAIN rep.dest : key # sA /\ rep.dest[key] # Empty

(***************************************************************************)
(* Coercion by type.                                                       *)
(***************************************************************************)
\* Lookup has returned from a struct of one field for which a Looker
\* supplied the raw value got.v.
Supplied(kinds) ==
    /\ pc = "done"
    /\ e.kind = "ptr"
    /\ Len(e.fields) = 1
    /\ e.fields[1].kind \in kinds
    /\ got.field = 1
    /\ got.b
    /\ got.err = nil

IsDigits(str) == str # Empty /\ \A p \in 1..Len(str) : str[p] \in decimalDigits

\* C26: for a complex field, the raw value "r,i" makes Lookup succeed with
\* the field holding real part r and imaginary part i, and a raw value
\* without a comma makes Lookup return a coercion error and leave the field.
C26_ComplexFromCommaPair ==
    Supplied({"complex64", "complex128"}) =>
        /\ \A c \in 1..Len(got.v) :
              (/\ got.v[c] = Comma
               /\ IsDigits(SubSeq(got.v, 1, c - 1))
               /\ IsDigits(SubSeq(got.v, c + 1, Len(got.v))))
              => /\ ret = NilErr
                 /\ rec[1] = ComplexV(e.fields[1].kind,
                                      DigitsValue(got.v, 1, c - 1, 10, 0),
                                      DigitsValue(got.v, c + 1, Len(got.v), 10, 0))
        /\ (\A c \in 1..Len(got.v) : got.v[c] # Comma)
              => ret.kind = NotTypeKind /\ rec[1] = rec0[1]

\* Not base64 in the standard alphabet without padding: line breaks aside,
\* a character that is not of the alphabet, or one character more than a
\* multiple of four.
NotBase64(v) ==
    \/ \E p \in 1..Len(v) : v[p] \notin {"\r", NL} /\ \A k \in 1..64 : encodeStd[k] # v[p]
    \/ Len(SelectSeq(v, LAMBDA c : c \notin {"\r", NL})) % 4 = 1

\* C27: for a []byte field, the unpadded base64 text of any bytes b makes
\* Lookup succeed with the field equal to b and one Reporter call with b;
\* a raw value that is not base64 makes Lookup return a coercion error, with
\* the field as it was and no Reporter call.
C27_BytesRoundTrip ==
    Supplied({"[]byte"}) =>
        /\ \A b \in ByteSeqs :
              got.v = EncodeToString(b, 1) =>
                  /\ ret = NilErr
                  /\ rec[1] = BytesV(b)
                  /\ Len(Reports(trace)) = 1
                  /\ Reports(trace)[1].key = got.key
                  /\ Reports(trace)[1].val = BytesV(b)
        /\ NotBase64(got.v) =>
              /\ ret.kind = NotTypeKind
              /\ rec[1] = rec0[1]
              /\ Reports(trace) = <<>>

\* Two bytes, which end in a group of three characters, came back.
C27_Witness ==
    /\ Supplied({"[]byte"})
    /\ got.v = EncodeToString(<<255, 77>>, 1)
    /\ Len(got.v) = 3
    /\ rec[1] = BytesV(<<255, 77>>)
    /\ rec0[1] # rec[1]
    /\ ret = NilErr

\* C28: when Lookup returns a coercion error, the field whose raw value
\* could not be converted holds what it held when Lookup was called.
C28_FailedCoercionLeavesField ==
    (pc = "done" /\ ret.kind = NotTypeKind) => rec[got.field] = rec0[got.field]

(***************************************************************************)
(* One pass.                                                               *)
(***************************************************************************)
TaggedFields == {f \in 1..Len(e.fields) : IsTagged(f)}
AllCalls == SelectSeq(trace, LAMBDA ev : ev.op = "call")

\* What the trace of one pass looks like: the fields come in declaration
\* order, only tagged fields have entries, the Lookers are asked for a
\* field in their order and once each, a field is written at most once and
\* reported at most once, and nothing is recorded for a field the loop has
\* not reached, nor for any field after the one Lookup returned an error at.
OnePass ==
    /\ \A k, m \in 1..Len(trace) : k < m => trace[k].field <= trace[m].field
    /\ \A k \in 1..Len(trace) :
          /\ trace[k].field \in TaggedFields
          /\ trace[k].field <= i
          /\ pc = "loop" => trace[k].field < i
    /\ \A f \in TaggedFields :
          /\ \A j \in 1..Len(CallsOf(f)) : CallsOf(f)[j].src = j
          /\ Len(CallsOf(f)) <= Len(seq)
          /\ Len(SelectSeq(trace, LAMBDA ev : ev.field = f /\ ev.op = "set")) <= 1
          /\ Len(SelectSeq(trace, LAMBDA ev : ev.field = f /\ ev.op = "report")) <= 1
    /\ Len(AllCalls) <= Cardinality(TaggedFields) * Len(seq)
    /\ i <= Len(e.fields) + 1
    /\ ret \notin {NotReturned} <=> pc = "done"

\* Every step of the loop moves to the next field or returns, a step that
\* returns an error is the last one, and nothing is asked, written or
\* reported once Lookup has returned.
Advances ==
    /\ pc = "loop" => (pc' = "done" \/ (pc' = "loop" /\ i' = i + 1))
    /\ pc = "done" => UNCHANGED <<trace, rec, rep, seq>>
    /\ ret' \notin {NotReturned, NilErr} => pc' = "done"

\* C29: every call of Lookup returns after one pass over the fields in
\* declaration order (the field index only grows and is bounded), each
\* Looker is asked at most once for a field (at most tagged fields times
\* Lookers calls in all), and nothing is asked, written or reported after
\* the first error.
C29_SinglePassNoRetry == []OnePass /\ [][Advances]_vars

\* Lookup has returned nil after asking each of two Lookers for each of two
\* tagged fields, one of the Lookers failing.
C29_Witness ==
    /\ pc = "done"
    /\ ret = NilErr
    /\ Len(seq) = 2
    /\ Cardinality(TaggedFields) >= 2
    /\ Len(AllCalls) = Cardinality(TaggedFields) * Len(seq)
    /\ \E k \in 1..Len(AllCalls) : AllCalls[k].err # nil

(***************************************************************************)
(* A value that comes with an error.                                       *)
(***************************************************************************)
\* The k-th entry of the trace is a Looker's answer with found = true and
\* an error.
FoundWithError(k) ==
    /\ trace[k].op = "call"
    /\ trace[k].b
    /\ trace[k].err # nil

\* Nothing was written or reported for field f.
Untouched(f) ==
    /\ rec[f] = rec0[f]
    /\ \A m \in 1..Len(trace) : trace[m].field = f => trace[m].op = "call"

\* C30: an answer with found = true and an error is not a supplied value:
\* lookupKey goes on to the next Looker, the value Lookup stores comes from
\* an answer without error, and when the answer is the last Looker's Lookup
\* returns a lookup-failed error with the field neither set nor reported.
C30_FoundWithErrorIsNoValue ==
    \A k \in 1..Len(trace) :
        /\ FoundWithError(k) /\ trace[k].src < Len(seq) =>
              /\ k < Len(trace)
              /\ trace[k + 1].op = "call"
              /\ trace[k + 1].field = trace[k].field
              /\ trace[k + 1].src = trace[k].src + 1
        /\ FoundWithError(k) /\ trace[k].src = Len(seq) =>
              /\ pc = "done"
              /\ ret.kind = LookupFailedKind
              /\ Untouched(trace[k].field)
        /\ trace[k].op = "set" =>
              /\ k > 1
              /\ trace[k - 1].op = "call"
              /\ trace[k - 1].b
              /\ trace[k - 1].err = nil

\* Two Lookers answered with a value and an error: the first was passed
\* over, the second was the last one and Lookup returned lookup failed.
C30_Witness ==
    /\ pc = "done"
    /\ Len(seq) = 2
    /\ Len(trace) = 2
    /\ FoundWithError(1)
    /\ FoundWithError(2)
    /\ got.b
    /\ ret.kind = LookupFailedKind

\* A later Looker supplied the value after one that answered with a value
\* and an error.
C30_Passed ==
    /\ pc = "done"
    /\ ret = NilErr
    /\ Len(trace) >= 3
    /\ FoundWithError(1)
    /\ trace[3].op = "set"

(***************************************************************************)
(* The nil Reporter.                                                       *)
(***************************************************************************)
\* What a call of Lookup on the struct and the Lookers of this behaviour
\* comes to, the Reporter left aside: LookupFn goes through the fields
\* without any Reporter.
Pass == LookupFn(e, rec0, seq)
PassCalls == SelectSeq(Pass.trace, LAMBDA ev : ev.op = "call")

\* C31: a call of Lookup with a nil Reporter and a call with any other
\* Reporter on the same struct and Lookers return the same error, ask the
\* Lookers the same questions in the same order and leave the struct in the
\* same state: whatever the Reporter, the call comes to Pass, and a nil
\* Reporter leaves the buffer and the Map as they were.
C31_NilReporterSameResult ==
    /\ pc = "done" =>
          /\ ret = Pass.ret
          /\ rec = Pass.rec
          /\ AllCalls = PassCalls
    /\ pc # "done" =>
          /\ ret = NotReturned
          /\ \A k \in 1..Len(AllCalls) : AllCalls[k] = PassCalls[k]
    /\ rep.r.kind = "nil" => rep.buf = Empty /\ DOMAIN rep.dest = {}

\* Lookup with a nil Reporter has returned nil after it stored one field
\* and reported that and another one.
C31_Witness ==
    /\ pc = "done"
    /\ rep.r.kind = "nil"
    /\ ret = NilErr
    /\ rec # rec0
    /\ Len(Reports(trace)) >= 2
    /\ Len(AllCalls) >= 2

\* The same with a Reporter that writes what it is told.
C31_Reported ==
    /\ pc = "done"
    /\ rep.r.kind = "Dup"
    /\ ret = NilErr
    /\ rec # rec0
    /\ Len(Reports(trace)) >= 2
    /\ Len(AllCalls) >= 2
    /\ rep.buf # Empty

(***************************************************************************)
(* ArgsLooker: a key given more than once.                                 *)
(***************************************************************************)
\* The argument a is of the form <prefix><NAME> or <prefix><NAME>=<value>
\* with a value on one line.
Matching(a, pfx) ==
    /\ HasPrefix(a, pfx)
    /\ FirstEq(a, pfx) # 0 => \A p \in (FirstEq(a, pfx) + 1)..Len(a) : a[p] # NL

\* The positions of the matching arguments of l that name key.
Occurrences(l, key) ==
    {n \in 1..Len(l.args) : Matching(l.args[n], l.prefix) /\ NameOf(l.args[n], l.prefix) = key}

\* The keys the matching arguments of l name.
NamedKeys(l) ==
    {NameOf(l.args[n], l.prefix) : n \in {m \in 1..Len(l.args) : Matching(l.args[m], l.prefix)}}

LastOccurrence(l, key) ==
    CHOOSE n \in Occurrences(l, key) : \A m \in Occurrences(l, key) : m <= n

\* C32: when a key occurs in several matching arguments of an ArgsLooker,
\* LookupKey returns the value of the last of them in argument order, and
\* none of them is in ExtraArgs.
C32_LastOccurrenceWins ==
    /\ \A j \in Processed : \A key \in NamedKeys(seq[j]) :
          Cardinality(Occurrences(seq[j], key)) >= 2 =>
              /\ key \in DOMAIN seq[j].tbl
              /\ seq[j].tbl[key].v
                    = ValueOf(seq[j].args[LastOccurrence(seq[j], key)], seq[j].prefix)
              /\ \A n \in Occurrences(seq[j], key) : \A m \in 1..Len(seq[j].extra) :
                    seq[j].extra[m] # seq[j].args[n]
    /\ \A k \in 1..Len(trace) :
          (/\ trace[k].op = "call"
           /\ seq[trace[k].src].kind = "Args"
           /\ Cardinality(Occurrences(seq[trace[k].src], trace[k].key)) >= 2) =>
              /\ trace[k].b
              /\ trace[k].err = nil
              /\ trace[k].val
                    = StrV(ValueOf(seq[trace[k].src].args[LastOccurrence(seq[trace[k].src],
                                                                         trace[k].key)],
                                   seq[trace[k].src].prefix))

\* An ArgsLooker with "-A=0", an extra argument and "-A=1" was asked for A
\* and answered "1".
C32_Witness ==
    /\ pc = "done"
    /\ Len(trace) >= 1
    /\ Len(seq) >= 1
    /\ trace[1].op = "call"
    /\ trace[1].key = sA
    /\ seq[1].kind = "Args"
    /\ seq[1].data = "map"
    /\ seq[1].extra # <<>>
    /\ Cardinality(Occurrences(seq[1], sA)) = 2
    /\ StrV(ValueOf(seq[1].args[1], seq[1].prefix)) # trace[1].val
    /\ trace[1].val = StrV(<<"1">>)

====
